---- MODULE Spec2Model ----
(***************************************************************************)
(* The rule-based defence pipeline of cyclawps-node: event bus, State      *)
(* Engine, Policy Engine, Risk Engine, Execution Engine and Orchestrator.  *)
(* JavaScript runs one callback at a time, so every action below is one    *)
(* synchronous stretch of code between two suspension points (await).      *)
(***************************************************************************)
EXTENDS Integers, Sequences, FiniteSets, TLC

(***************************************************************************)
(* Bounds of the model.                                                    *)
(***************************************************************************)
\* time passes on its own from 1000 ms to MaxTicks * 1000 ms
MaxTicks == 2
\* events emitted on the bus in one run
MaxEvents == 2
\* calls of ExecutionEngine.execute in one run
MaxExecutions == 2
\* plans and threat exits the executor-agent receives
MaxPlans == 3
\* signals published on the signal bus
MaxSignals == 2
\* DevWalletSell events handled in a row when the ring is filled
MaxSells == 102
\* DevWalletSell events handled when they carry timestamps of their own
MaxStampedSells == 4
\* calls of SentinelAgent.monitorPosition in one run
MaxChecks == 3
\* steps of half a check interval the clock makes while the sentinel runs
MaxClockSteps == 2
\* DevWalletSell events handled while the sentinel runs
MaxSentinelSells == 1
\* calls of WalletGraph.addEdge in one run
MaxAddEdges == 3
\* calls of start() followed on one agent, and ticks counted on it
MaxStartCalls == 3
MaxTickCount == 1
\* calls of DeployerScoreEngine.recordLaunch in one run
MaxLaunchCalls == 3

(***************************************************************************)
(* Values.                                                                 *)
(***************************************************************************)
PositionIds == {"p1", "p2"}
Mints == {"m1", "m2"}
DevWallets == {"d1"}
EventIds == 1..MaxEvents
ExecIds == 1..MaxExecutions

\* an optional value (undefined / null in the source) is the empty sequence
None == <<>>
Some(x) == <<x>>
IsSome(o) == o # <<>>
Get(o) == o[1]

\* container.riskParams: the defaults of the environment schema, with the
\* cooldown (any integer >= 0 there) of one clock step
DefaultRiskParams ==
  [maxPositionSizeSol |-> 1, maxSlippageBps |-> 300,
   maxPriorityFeeLamports |-> 100000, executionCooldownMs |-> 1000]

\* the balance a position is opened with (quote.amountOut of the buy)
OpeningBalances == {3}
\* sellPercentage of the plans the executor-agent turns into requests
AgentSellPercentages == {100}
\* percentageOfHoldings carried by DevWalletSell events
SellPercentagesOfHoldings == {10, 30}

\* changePercentage carried by SupplyChange events
SupplyChangePercentages == {50}

ExitPolicy ==
  [id |-> "polExit", trigger |-> "DEV_SELL_PERCENTAGE", threshold |-> 30,
   windowSeconds |-> Some(1), action |-> "EXIT_POSITION",
   actionParams |-> None, priority |-> 1, isActive |-> TRUE]
SupplyPolicy ==
  [id |-> "polSupply", trigger |-> "SUPPLY_INCREASE", threshold |-> 20,
   windowSeconds |-> None, action |-> "PARTIAL_SELL",
   actionParams |-> None, priority |-> 2, isActive |-> TRUE]
\* the rows db.policy.findMany returns at start
LoadedPolicies == <<ExitPolicy, SupplyPolicy>>
\* the mint of the events that are emitted
EventMints == {"m1"}

VARIABLES
  now,                \* Date.now()
  riskParams,         \* container.riskParams
  positions,          \* StateEngine.positions: id -> optional PositionState
  positionOrder,      \* insertion order of the positions map
  devMetrics,         \* StateEngine.devMetrics: <<mint, devWallet>> -> optional metrics
  policies,           \* PolicyEngine.policies
  lastExecutionTime,  \* RiskEngine.lastExecutionTime: id -> optional time
  processing,         \* Orchestrator.processing
  dispatch,           \* EventBus.emit between its two emitter calls: the event being emitted
  tasks,              \* one Orchestrator.processEvent invocation per emitted event
  executions,         \* one ExecutionEngine.execute invocation per execution id
  agentBusy,          \* the executor-agent is inside executeExit
  riskCall,           \* the last direct call of RiskEngine.evaluate and what it returned
  approvedAt,         \* per position: time of the last approval not followed by resetCooldown
  policyReads,        \* for the latest event: who evaluated policies, and whether the sell was recorded by then
  queue,              \* ExecutorAgent.queue
  current,            \* the plan ExecutorAgent.executePlan is running, and where it is
  plansSeen,          \* how many plans the executor-agent has received
  handled,            \* the enter / exit / partial_exit plans whose executePlan has ended
  memoryInbox,        \* the execution-result messages sent to the memory agent
  stream,             \* the Redis stream of the signal channel
  groupCreated,       \* the consumer group exists on the stream
  lastDelivered,      \* the consumer group's last-delivered position in the stream
  pending,            \* the group's pending entries: <<consumer, entry>> delivered and not acknowledged
  consuming,          \* IntelBus.consuming, per node
  batch,              \* per node: the entries of the xreadgroup reply consumeTick still has to go through
  dispatched,         \* per node: the handler runs so far, as <<entry, handler, outcome>>
  acked,              \* the xack calls so far, as <<consumer, entry>>
  call,               \* the last direct call of a query or a pure function and what it returned
  sellLog,            \* per (mint, devWallet): how many DevWalletSell events were handled, and the sum of their percentages
  resultsTaken,       \* how many execution-result messages MemoryAgent.tick has shifted off pendingResults
  outcomes,           \* MemoryAgent.outcomes
  strategistInbox,    \* the outcome messages sent to the strategist
  running,            \* Agent.running of the executor-agent
  messageHandlers,    \* Agent.messageHandlers of the executor-agent: the channels that have a handler
  busListeners,       \* how many times the executor-agent's handlers are registered on the EventBus emitter
  lastCheck,          \* SentinelAgent.lastCheck: position id -> optional time
  devWalletCache,     \* SentinelAgent.devWalletCache: the mints whose dev wallet is cached
  sentinelRunning,    \* Agent.running of the sentinel
  sentinelTicks,      \* the invocations of SentinelAgent.tick that have not returned, and where each is
  checks,             \* the calls of monitorPosition so far: position, time, threats, messages sent, reasoning called
  graphEdges,         \* Redis cyclawps:graph:edge:<from>:<to>: optional WalletEdge
  graphOut,           \* Redis cyclawps:graph:out:<wallet>: set of wallets
  graphIn,            \* Redis cyclawps:graph:in:<wallet>: set of wallets
  agents,             \* Swarm.agents: role -> the Agent's running, timer and where its start() is
  swarmRunning,       \* Swarm.running
  profiles,           \* Redis cyclawps:deployer:<address>: optional DeployerProfile
  scoreIndex,         \* Redis sorted set cyclawps:deployer:scores: address -> optional score
  launches            \* the calls of DeployerScoreEngine.recordLaunch: arguments, what each read and built, and where it is

vars == <<now, riskParams, positions, positionOrder, devMetrics, policies,
          lastExecutionTime, processing, dispatch, tasks, executions,
          agentBusy, riskCall, approvedAt, policyReads,
          queue, current, plansSeen, handled, memoryInbox,
          stream, groupCreated, lastDelivered, pending, consuming, batch,
          dispatched, acked, call, sellLog,
          resultsTaken, outcomes, strategistInbox,
          running, messageHandlers, busListeners,
          lastCheck, devWalletCache, sentinelRunning, sentinelTicks, checks,
          graphEdges, graphOut, graphIn,
          agents, swarmRunning,
          profiles, scoreIndex, launches>>

agentVars == <<queue, current, plansSeen, handled, memoryInbox>>
busVars == <<stream, groupCreated, lastDelivered, pending, consuming, batch,
             dispatched, acked>>
memoryVars == <<resultsTaken, outcomes, strategistInbox>>
lifecycleVars == <<running, messageHandlers, busListeners>>
sentinelVars == <<lastCheck, devWalletCache, sentinelRunning, sentinelTicks, checks>>
graphVars == <<graphEdges, graphOut, graphIn>>
startVars == <<agents, swarmRunning>>
scoreVars == <<profiles, scoreIndex, launches>>
swarmVars == <<sentinelVars, graphVars, startVars, scoreVars>>
extVars == <<call, sellLog, memoryVars, lifecycleVars, swarmVars>>


\* the nodes that share the Redis instance (NODE_ID of each)
Nodes == {"n1", "n2"}
\* the handlers a node has subscribed to the channel, in subscription order
Handlers == 1..2

\* the invocations of SentinelAgent.tick that are followed: one at a time
\* the wallets of the wallet graph
Wallets == {"w1", "w2", "w3", "w4"}

SentinelTickIds == {1}
\* no invocation of tick under this id
IdleTick == [pc |-> "idle", todo |-> <<>>, check |-> 0, threats |-> <<>>, publish |-> 0]

\* after construction: nothing queued, no plan running, nothing reported
AgentInit ==
  /\ queue = <<>>
  /\ current = <<>>
  /\ plansSeen = 0
  /\ handled = {}
  /\ memoryInbox = <<>>

\* after construction: an empty stream without a group, nobody consuming
BusInit ==
  /\ stream = <<>>
  /\ groupCreated = FALSE
  /\ lastDelivered = 0
  /\ pending = {}
  /\ consuming = [n \in Nodes |-> FALSE]
  /\ batch = [n \in Nodes |-> <<>>]
  /\ dispatched = [n \in Nodes |-> <<>>]
  /\ acked = {}

\* the channels ExecutorAgent.onStart subscribes to
AgentChannels == {"execution-plan", "threat-exit"}

\* the roles registered with the swarm whose start and stop are followed
Roles == {"memory", "sentinel"}

\* an Agent after its constructor: timer = null, running = false, tickCount = 0;
\* intervals counts the setInterval timers that are live, pc is where a call
\* of start() stands, starts counts the calls of start() and outcome is how
\* the last one ended
NewAgent == [running |-> FALSE, timer |-> FALSE, intervals |-> 0, pc |-> "idle",
             starts |-> 0, tickCount |-> 0, outcome |-> "none"]

\* the deployers whose profiles are followed, and the calls of recordLaunch
Deployers == {"d1", "d2"}
LaunchCallIds == 1..MaxLaunchCalls

\* a call of recordLaunch that has not been made
NoLaunchCall == [pc |-> "unborn", deployer |-> "", mintAddress |-> "",
                 connectedWallets |-> <<>>, existing |-> None, full |-> None]

\* nothing has been called directly yet; the agents have been started once
NoCall == [op |-> "none", args |-> <<>>, result |-> <<>>]
ExtInit ==
  /\ call = NoCall
  /\ sellLog = [k \in Mints \X DevWallets |-> [count |-> 0, sum |-> 0]]
  /\ resultsTaken = 0
  /\ outcomes = <<>>
  /\ strategistInbox = <<>>
  /\ running = TRUE
  /\ messageHandlers = AgentChannels
  /\ busListeners = 1
  /\ lastCheck = [p \in PositionIds |-> None]
  /\ devWalletCache = {}
  /\ sentinelRunning = TRUE
  /\ sentinelTicks = [t \in SentinelTickIds |-> IdleTick]
  /\ checks = <<>>
  /\ graphEdges = [e \in Wallets \X Wallets |-> None]
  /\ graphOut = [w \in Wallets |-> {}]
  /\ graphIn = [w \in Wallets |-> {}]
  /\ agents = [role \in Roles |-> NewAgent]
  /\ swarmRunning = FALSE
  /\ profiles = [d \in Deployers |-> None]
  /\ scoreIndex = [d \in Deployers |-> None]
  /\ launches = [c \in LaunchCallIds |-> NoLaunchCall]

(***************************************************************************)
(* Helpers.                                                                *)
(***************************************************************************)
\* bigint division truncates toward zero
BigIntDiv(a, b) == IF a >= 0 THEN a \div b ELSE -((-a) \div b)

\* a ?? b
OrElse(o, d) == IF IsSome(o) THEN Get(o) ELSE d

\* Object.assign(existing, update)
ObjectAssign(existing, update) ==
  [f \in DOMAIN existing |-> IF f \in DOMAIN update THEN update[f] ELSE existing[f]]

(***************************************************************************)
(* State Engine.                                                           *)
(***************************************************************************)
RecentSellsLimit == 100

getPosition(positionId) == positions[positionId]

getPositionsByMint(mintAddress) ==
  SelectSeq(positionOrder,
    LAMBDA id : /\ IsSome(positions[id])
                /\ Get(positions[id]).mintAddress = mintAddress
                /\ Get(positions[id]).status = "OPEN")

getDevMetrics(mintAddress, devWallet) == devMetrics[<<mintAddress, devWallet>>]

sellPercentageAfterCutoff(mintAddress, devWallet, windowMs) ==
  LET metrics == devMetrics[<<mintAddress, devWallet>>]
      cutoff == now - windowMs
      RECURSIVE Reduce(_)
      Reduce(s) ==
        IF s = <<>> THEN 0
        ELSE (IF s[1].timestamp > cutoff THEN s[1].percentage ELSE 0) + Reduce(Tail(s))
  IN IF ~IsSome(metrics) THEN 0 ELSE Reduce(Get(metrics).recentSells)

getDevSellPercentageInWindow(mintAddress, devWallet, windowMs) ==
  LET metrics == devMetrics[<<mintAddress, devWallet>>]
      cutoff == now - windowMs
      RECURSIVE Reduce(_)
      Reduce(s) ==
        IF s = <<>> THEN 0
        ELSE (IF s[1].timestamp >= cutoff THEN s[1].percentage ELSE 0) + Reduce(Tail(s))
  IN IF ~IsSome(metrics) THEN 0 ELSE Reduce(Get(metrics).recentSells)

firstN(s, n) == IF Len(s) > n THEN SubSeq(s, 1, n) ELSE s

\* slice(-n)
LastN(s, n) == IF Len(s) > n THEN SubSeq(s, Len(s) - n + 1, Len(s)) ELSE s

RECURSIVE SumOfRing(_)
SumOfRing(s) == IF s = <<>> THEN 0 ELSE s[1].percentage + SumOfRing(Tail(s))

handleDevSellTotalOfRing(event) ==
  LET key == <<event.mintAddress, event.devWallet>>
      existing == devMetrics[key]
      sell == [timestamp |-> event.timestamp,
               percentage |-> event.percentageOfHoldings, slot |-> event.slot]
  IN IF IsSome(existing)
     THEN LET pushed == Append(Get(existing).recentSells, sell)
              kept == IF Len(pushed) > RecentSellsLimit
                      THEN LastN(pushed, RecentSellsLimit) ELSE pushed
          IN [devMetrics EXCEPT ![key] = Some(
               [mintAddress |-> Get(existing).mintAddress,
                devWallet |-> Get(existing).devWallet,
                totalSellCount |-> Get(existing).totalSellCount + 1,
                totalSellPercentage |-> SumOfRing(kept),
                recentSells |-> kept,
                lastUpdated |-> now])]
     ELSE [devMetrics EXCEPT ![key] = Some(
               [mintAddress |-> event.mintAddress,
                devWallet |-> event.devWallet,
                totalSellCount |-> 1,
                totalSellPercentage |-> event.percentageOfHoldings,
                recentSells |-> <<sell>>,
                lastUpdated |-> now])]

\* the devMetrics map after handleDevSell(event)
handleDevSell(event) ==
  LET key == <<event.mintAddress, event.devWallet>>
      existing == devMetrics[key]
      sell == [timestamp |-> event.timestamp,
               percentage |-> event.percentageOfHoldings, slot |-> event.slot]
  IN IF IsSome(existing)
     THEN LET pushed == Append(Get(existing).recentSells, sell)
          IN [devMetrics EXCEPT ![key] = Some(
               [mintAddress |-> Get(existing).mintAddress,
                devWallet |-> Get(existing).devWallet,
                totalSellCount |-> Get(existing).totalSellCount + 1,
                totalSellPercentage |->
                  Get(existing).totalSellPercentage + event.percentageOfHoldings,
                recentSells |-> IF Len(pushed) > RecentSellsLimit
                                THEN LastN(pushed, RecentSellsLimit) ELSE pushed,
                lastUpdated |-> now])]
     ELSE [devMetrics EXCEPT ![key] = Some(
               [mintAddress |-> event.mintAddress,
                devWallet |-> event.devWallet,
                totalSellCount |-> 1,
                totalSellPercentage |-> event.percentageOfHoldings,
                recentSells |-> <<sell>>,
                lastUpdated |-> now])]

\* the log of handled sells after the listener has been handed event
Logged(event) ==
  [sellLog EXCEPT ![<<event.mintAddress, event.devWallet>>] =
     [count |-> @.count + 1, sum |-> @.sum + event.percentageOfHoldings]]

\* the positions map after updatePosition(positionId, update)
updatePosition(positionId, update) ==
  LET existing == positions[positionId]
  IN IF IsSome(existing)
     THEN [positions EXCEPT ![positionId] = Some(ObjectAssign(Get(existing), update))]
     ELSE positions

\* the positions map after addPosition(position)
addPosition(position) == [positions EXCEPT ![position.id] = Some(position)]

(***************************************************************************)
(* Risk Engine.                                                            *)
(***************************************************************************)
evaluateShortCircuit(request) ==
  LET lastExec == lastExecutionTime[request.positionId]
      position == getPosition(request.positionId)
      v == IF request.maxSlippageBps > riskParams.maxSlippageBps
             THEN <<"MAX_SLIPPAGE">>
           ELSE IF request.priorityFeeLamports > riskParams.maxPriorityFeeLamports
             THEN <<"MAX_PRIORITY_FEE">>
           ELSE IF /\ IsSome(lastExec) /\ Get(lastExec) # 0
                   /\ now - Get(lastExec) < riskParams.executionCooldownMs
             THEN <<"EXECUTION_COOLDOWN">>
           ELSE IF /\ IsSome(position)
                   /\ Get(position).entryAmountSol > riskParams.maxPositionSizeSol
             THEN <<"MAX_POSITION_SIZE">>
           ELSE IF request.sellPercentage <= 0 \/ request.sellPercentage > 100
             THEN <<"INVALID_SELL_PERCENTAGE">>
           ELSE <<>>
  IN [approved |-> Len(v) = 0, violations |-> v]

evaluateAllowsZero(request) ==
  LET v0 == <<>>
      v1 == IF request.maxSlippageBps > riskParams.maxSlippageBps
            THEN Append(v0, "MAX_SLIPPAGE") ELSE v0
      v2 == IF request.priorityFeeLamports > riskParams.maxPriorityFeeLamports
            THEN Append(v1, "MAX_PRIORITY_FEE") ELSE v1
      lastExec == lastExecutionTime[request.positionId]
      v3 == IF /\ IsSome(lastExec) /\ Get(lastExec) # 0
               /\ now - Get(lastExec) < riskParams.executionCooldownMs
            THEN Append(v2, "EXECUTION_COOLDOWN") ELSE v2
      position == getPosition(request.positionId)
      v4 == IF /\ IsSome(position)
               /\ Get(position).entryAmountSol > riskParams.maxPositionSizeSol
            THEN Append(v3, "MAX_POSITION_SIZE") ELSE v3
      v5 == IF request.sellPercentage < 0 \/ request.sellPercentage > 100
            THEN Append(v4, "INVALID_SELL_PERCENTAGE") ELSE v4
  IN [approved |-> Len(v5) = 0, violations |-> v5]

\* what evaluate(request) returns
evaluate(request) ==
  LET v0 == <<>>
      v1 == IF request.maxSlippageBps > riskParams.maxSlippageBps
            THEN Append(v0, "MAX_SLIPPAGE") ELSE v0
      v2 == IF request.priorityFeeLamports > riskParams.maxPriorityFeeLamports
            THEN Append(v1, "MAX_PRIORITY_FEE") ELSE v1
      lastExec == lastExecutionTime[request.positionId]
      \* if (lastExec): an entry of 0 is falsy
      v3 == IF /\ IsSome(lastExec) /\ Get(lastExec) # 0
               /\ now - Get(lastExec) < riskParams.executionCooldownMs
            THEN Append(v2, "EXECUTION_COOLDOWN") ELSE v2
      position == getPosition(request.positionId)
      v4 == IF /\ IsSome(position)
               /\ Get(position).entryAmountSol > riskParams.maxPositionSizeSol
            THEN Append(v3, "MAX_POSITION_SIZE") ELSE v3
      v5 == IF request.sellPercentage <= 0 \/ request.sellPercentage > 100
            THEN Append(v4, "INVALID_SELL_PERCENTAGE") ELSE v4
  IN [approved |-> Len(v5) = 0, violations |-> v5]

stampNothing(request, check) == lastExecutionTime

\* the lastExecutionTime map after evaluate(request) returned check
stampLastExecution(request, check) ==
  IF Len(check.violations) = 0
  THEN [lastExecutionTime EXCEPT ![request.positionId] = Some(now)]
  ELSE lastExecutionTime

\* the lastExecutionTime map after resetCooldown(positionId)
resetCooldown(positionId) == [lastExecutionTime EXCEPT ![positionId] = None]

(***************************************************************************)
(* Policy Engine.                                                          *)
(***************************************************************************)
DefaultWindowSeconds == 600

evaluateDevSellPercentage(policy, event) ==
  IF event.type # "DEV_WALLET_SELL" THEN None
  ELSE LET windowMs == OrElse(policy.windowSeconds, DefaultWindowSeconds) * 1000
           totalPct == getDevSellPercentageInWindow(
                         event.mintAddress, event.devWallet, windowMs)
       IN Some([policyId |-> policy.id,
                triggered |-> totalPct >= policy.threshold,
                action |-> policy.action,
                actionParams |-> policy.actionParams,
                triggerValue |-> totalPct,
                threshold |-> policy.threshold])

evaluateDevSellCount(policy, event) ==
  IF event.type # "DEV_WALLET_SELL" THEN None
  ELSE LET metrics == getDevMetrics(event.mintAddress, event.devWallet)
           count == IF IsSome(metrics) THEN Get(metrics).totalSellCount ELSE 0
       IN Some([policyId |-> policy.id,
                triggered |-> count >= policy.threshold,
                action |-> policy.action,
                actionParams |-> policy.actionParams,
                triggerValue |-> count,
                threshold |-> policy.threshold])

evaluateSupplyIncrease(policy, event) ==
  IF event.type # "SUPPLY_CHANGE" THEN None
  ELSE Some([policyId |-> policy.id,
             triggered |-> event.changePercentage >= policy.threshold,
             action |-> policy.action,
             actionParams |-> policy.actionParams,
             triggerValue |-> event.changePercentage,
             threshold |-> policy.threshold])

\* LP_REMOVAL_PERCENTAGE returns null for every event that is not LP_REMOVE,
\* PRICE_DROP_PERCENTAGE and the default always
evaluatePolicy(policy, event) ==
  CASE policy.trigger = "DEV_SELL_PERCENTAGE" -> evaluateDevSellPercentage(policy, event)
    [] policy.trigger = "DEV_SELL_COUNT" -> evaluateDevSellCount(policy, event)
    [] policy.trigger = "SUPPLY_INCREASE" -> evaluateSupplyIncrease(policy, event)
    [] OTHER -> None

\* policies.find((p) => p.id === id)?.priority ?? 0
PriorityOf(policyId) ==
  LET found == SelectSeq(policies, LAMBDA p : p.id = policyId)
  IN IF found = <<>> THEN 0 ELSE found[1].priority

RECURSIVE sortByPriorityAscending(_)
sortByPriorityAscending(results) ==
  IF results = <<>> THEN <<>>
  ELSE LET n == Len(results)
           sorted == sortByPriorityAscending(SubSeq(results, 1, n - 1))
           r == results[n]
           before == SelectSeq(sorted,
                       LAMBDA a : PriorityOf(a.policyId) - PriorityOf(r.policyId) <= 0)
           after == SelectSeq(sorted,
                       LAMBDA a : PriorityOf(a.policyId) - PriorityOf(r.policyId) > 0)
       IN before \o <<r>> \o after

\* Array.prototype.sort is stable: insert each result behind the results that
\* do not compare after it
RECURSIVE SortByPriority(_)
SortByPriority(results) ==
  IF results = <<>> THEN <<>>
  ELSE LET n == Len(results)
           sorted == SortByPriority(SubSeq(results, 1, n - 1))
           r == results[n]
           before == SelectSeq(sorted,
                       LAMBDA a : PriorityOf(r.policyId) - PriorityOf(a.policyId) <= 0)
           after == SelectSeq(sorted,
                       LAMBDA a : PriorityOf(r.policyId) - PriorityOf(a.policyId) > 0)
       IN before \o <<r>> \o after

RECURSIVE CollectTriggered(_, _)
CollectTriggered(ps, event) ==
  IF ps = <<>> THEN <<>>
  ELSE LET policy == ps[1]
           result == evaluatePolicy(policy, event)
           rest == CollectTriggered(Tail(ps), event)
       IN IF ~policy.isActive THEN rest
          ELSE IF IsSome(result) /\ Get(result).triggered THEN <<Get(result)>> \o rest
          ELSE rest

\* what evaluateEvent(event) resolves to; it reads the State Engine when called
evaluateEvent(event) == SortByPriority(CollectTriggered(policies, event))

(***************************************************************************)
(* Orchestrator: the pure parts.                                           *)
(***************************************************************************)
DefaultPartialSellPercentage == 50

mapPolicyActionHaltSells(result) ==
  CASE result.action = "EXIT_POSITION" ->
         Some([type |-> "FULL_EXIT", sellPercentage |-> 100])
    [] result.action = "PARTIAL_SELL" ->
         Some([type |-> "PARTIAL_SELL",
               sellPercentage |->
                 IF IsSome(result.actionParams)
                 THEN OrElse(Get(result.actionParams).sellPercentage,
                             DefaultPartialSellPercentage)
                 ELSE DefaultPartialSellPercentage])
    [] result.action = "HALT_STRATEGY" ->
         Some([type |-> "HALT", sellPercentage |-> 100])
    [] OTHER -> None

mapPolicyAction(result) ==
  CASE result.action = "EXIT_POSITION" ->
         Some([type |-> "FULL_EXIT", sellPercentage |-> 100])
    [] result.action = "PARTIAL_SELL" ->
         Some([type |-> "PARTIAL_SELL",
               sellPercentage |->
                 IF IsSome(result.actionParams)
                 THEN OrElse(Get(result.actionParams).sellPercentage,
                             DefaultPartialSellPercentage)
                 ELSE DefaultPartialSellPercentage])
    [] result.action = "HALT_STRATEGY" ->
         Some([type |-> "HALT", sellPercentage |-> 0])
    [] OTHER -> None

extractMintFromEvent(event) ==
  IF event.type \in {"DEV_WALLET_SELL", "DEV_WALLET_TRANSFER", "TOKEN_TRANSFER",
                     "TOKEN_BALANCE_CHANGE", "LP_ADD", "LP_REMOVE", "SUPPLY_CHANGE"}
  THEN Some(event.mintAddress) ELSE None

\* the ExecutionRequest handleTriggeredPolicy builds for one position
PolicyRequest(result, positionId, action) ==
  [positionId |-> positionId,
   policyId |-> result.policyId,
   action |-> action.type,
   sellPercentage |-> action.sellPercentage,
   maxSlippageBps |->
     IF IsSome(result.actionParams)
     THEN OrElse(Get(result.actionParams).maxSlippageBps, riskParams.maxSlippageBps)
     ELSE riskParams.maxSlippageBps,
   priorityFeeLamports |->
     IF IsSome(result.actionParams)
     THEN OrElse(Get(result.actionParams).priorityFeeLamports,
                 riskParams.maxPriorityFeeLamports)
     ELSE riskParams.maxPriorityFeeLamports]

(***************************************************************************)
(* Execution Engine.                                                       *)
(***************************************************************************)
MAX_RETRIES == 3
BASE_RETRY_DELAY_MS == 1000

RECURSIVE Pow2(_)
Pow2(n) == IF n = 0 THEN 1 ELSE 2 * Pow2(n - 1)

NoRequest ==
  [positionId |-> "p1", policyId |-> "", action |-> "", sellPercentage |-> 0,
   maxSlippageBps |-> 0, priorityFeeLamports |-> 0]

PendingResult ==
  [status |-> "PENDING", txSignature |-> None, amountIn |-> None, errorMessage |-> None]

\* the result object of a failure: an errorMessage is a sequence of text pieces
FailedResult(amountIn, errorMessage) ==
  [status |-> "FAILED", txSignature |-> None, amountIn |-> amountIn,
   errorMessage |-> Some(errorMessage)]

ConfirmedResult(txSignature, sellAmount) ==
  [status |-> "CONFIRMED", txSignature |-> Some(txSignature),
   amountIn |-> Some(sellAmount), errorMessage |-> None]

NoCaller == [kind |-> "none", event |-> 0]

\* an invocation of execute that has not been made yet
Unborn ==
  [pc |-> "unborn", caller |-> NoCaller, request |-> NoRequest, sellAmount |-> 0,
   attempt |-> 0, warnings |-> <<>>, sends |-> 0, failedAt |-> 0, wakeAt |-> 0,
   simulated |-> FALSE, simError |-> FALSE, threw |-> FALSE, approved |-> FALSE,
   found |-> FALSE, updated |-> FALSE, persistCalls |-> 0, persisted |-> None,
   result |-> PendingResult]

\* an invocation whose result the caller has taken
Done == [Unborn EXCEPT !.pc = "done"]

InFlight(x) == executions[x].pc \notin {"unborn", "returned", "done"}

FreeExecIds == {x \in ExecIds : executions[x].pc = "unborn"}
NextExecId == CHOOSE x \in FreeExecIds : \A y \in FreeExecIds : x <= y

\* position.tokenBalance * BigInt(Math.floor(sellPercentage)) / BigInt(100);
\* the modelled percentages are integers, which Math.floor leaves alone
SellAmount(tokenBalance, sellPercentage) ==
  BigIntDiv(tokenBalance * sellPercentage, 100)

beginExecutionIgnoresRisk(caller, request) ==
  LET riskCheck == evaluate(request)
      position == getPosition(request.positionId)
      base == [Unborn EXCEPT !.caller = caller, !.request = request]
  IN IF ~IsSome(position)
     THEN [base EXCEPT !.pc = "persist", !.approved = riskCheck.approved,
             !.result = FailedResult(None, <<"Position ", request.positionId, " not found">>)]
     ELSE [base EXCEPT !.pc = "prepare", !.approved = riskCheck.approved, !.found = TRUE,
             !.sellAmount = SellAmount(Get(position).tokenBalance, request.sellPercentage)]

\* execute(request) up to its first await: the risk check, the position lookup
\* and the sell amount
BeginExecution(caller, request) ==
  LET riskCheck == evaluate(request)
      position == getPosition(request.positionId)
      base == [Unborn EXCEPT !.caller = caller, !.request = request]
  IN IF ~riskCheck.approved
     THEN [base EXCEPT !.pc = "persist",
             !.result = FailedResult(None, <<"Risk violations: ">> \o riskCheck.violations)]
     ELSE IF ~IsSome(position)
     THEN [base EXCEPT !.pc = "persist", !.approved = TRUE,
             !.result = FailedResult(None, <<"Position ", request.positionId, " not found">>)]
     ELSE [base EXCEPT !.pc = "prepare", !.approved = TRUE, !.found = TRUE,
             !.sellAmount = SellAmount(Get(position).tokenBalance, request.sellPercentage)]

caughtAndRethrown(exec, errorMsg) ==
  [exec EXCEPT !.pc = "thrown", !.threw = TRUE]

\* the top-level catch of execute
Caught(exec, errorMsg) ==
  [exec EXCEPT !.pc = "persist", !.threw = TRUE,
     !.result = FailedResult(None, <<errorMsg>>)]

retryDelayConstant(attempt) == BASE_RETRY_DELAY_MS

\* BASE_RETRY_DELAY_MS * Math.pow(2, attempt)
RetryDelay(attempt) == BASE_RETRY_DELAY_MS * Pow2(attempt)

simulationErrorIgnored(exec, err) ==
  [exec EXCEPT !.pc = "send", !.simError = TRUE]

\* if (simulation.value.err): the failed result, and on to persistExecution
SimulationFailed(exec, err) ==
  [exec EXCEPT !.pc = "persist", !.simError = TRUE,
     !.result = FailedResult(Some(exec.sellAmount), <<"Simulation failed: ", err>>)]

closeWhenNotPositive(newBalance) ==
  [tokenBalance |-> newBalance,
   status |-> IF newBalance <= 0 THEN "CLOSED" ELSE "OPEN",
   closedAt |-> IF newBalance = 0 THEN Some(now) ELSE None]

\* the update execute applies to the in-memory position after a confirmed send
PositionUpdate(newBalance) ==
  [tokenBalance |-> newBalance,
   status |-> IF newBalance = 0 THEN "CLOSED" ELSE "OPEN",
   closedAt |-> IF newBalance = 0 THEN Some(now) ELSE None]

\* the row persistExecution hands to db.execution.create
ExecutionRow(x, exec) ==
  [id |-> x, positionId |-> exec.request.positionId, policyId |-> exec.request.policyId,
   action |-> exec.request.action, txSignature |-> exec.result.txSignature,
   status |-> exec.result.status, amountIn |-> exec.result.amountIn,
   errorMessage |-> exec.result.errorMessage]

(***************************************************************************)
(* Event bus.                                                              *)
(***************************************************************************)
EventTypes == {"DEV_WALLET_SELL", "SUPPLY_CHANGE"}

NoEvent ==
  [id |-> 0, type |-> "", timestamp |-> 0, slot |-> 0, devWallet |-> "",
   mintAddress |-> "", percentageOfHoldings |-> 0, changePercentage |-> 0]

\* the listeners of an emitter channel, in the order main() registered them:
\* stateEngine.start, policyEngine.start, orchestrator.start
Listeners(channel) ==
  CASE channel = "event" -> <<"policyEngine", "orchestrator">>
    [] channel = "DEV_WALLET_SELL" -> <<"stateEngine">>
    [] OTHER -> <<>>

\* has the State Engine recorded this sell when somebody reads the metrics
Recorded(event) ==
  LET metrics == getDevMetrics(event.mintAddress, event.devWallet)
  IN /\ IsSome(metrics)
     /\ \E i \in 1..Len(Get(metrics).recentSells) :
          Get(metrics).recentSells[i].slot = event.slot

(***************************************************************************)
(* Orchestrator: one processEvent invocation per event.                    *)
(***************************************************************************)
NoTask ==
  [pc |-> "unborn", event |-> NoEvent, triggered |-> <<>>, ri |-> 1,
   plist |-> None, pi |-> 1, exec |-> 0, issued |-> <<>>,
   qualified |-> FALSE, openAtEmit |-> {}]

TaskActive(e) == tasks[e].pc \in {"evaluated", "exec"}

\* processEvent from the point it is at to its next call of execute, or to its end:
\* the loop over the triggered results and, inside handleTriggeredPolicy, over
\* the open positions of the event's mint
RECURSIVE Advance(_, _, _, _, _)
Advance(event, triggered, ri, plist, pi) ==
  IF ri > Len(triggered)
  THEN [kind |-> "finish", ri |-> ri, plist |-> None, pi |-> 1, request |-> NoRequest]
  ELSE IF ~IsSome(plist)
  THEN LET mintAddress == extractMintFromEvent(event)
       IN IF ~IsSome(mintAddress)
          THEN Advance(event, triggered, ri + 1, None, 1)
          ELSE LET found == getPositionsByMint(Get(mintAddress))
               IN IF Len(found) = 0
                  THEN Advance(event, triggered, ri + 1, None, 1)
                  ELSE Advance(event, triggered, ri, Some(found), 1)
  ELSE IF pi > Len(Get(plist))
  THEN Advance(event, triggered, ri + 1, None, 1)
  ELSE LET action == mapPolicyAction(triggered[ri])
       IN IF ~IsSome(action)
          THEN Advance(event, triggered, ri, plist, pi + 1)
          ELSE [kind |-> "execute", ri |-> ri, plist |-> plist, pi |-> pi,
                request |-> PolicyRequest(triggered[ri], Get(plist)[pi], Get(action))]

gateOpen == FALSE

\* if (this.processing) return
Gate == processing

(***************************************************************************)
(* Initial state: the services are constructed and started, nothing has    *)
(* been ingested, no position is loaded.                                   *)
(***************************************************************************)
Init ==
  /\ now = 1000
  /\ riskParams = DefaultRiskParams
  /\ positions = [p \in PositionIds |-> None]
  /\ positionOrder = <<>>
  /\ devMetrics = [k \in Mints \X DevWallets |-> None]
  /\ policies = LoadedPolicies
  /\ lastExecutionTime = [p \in PositionIds |-> None]
  /\ processing = FALSE
  /\ dispatch = None
  /\ tasks = [e \in EventIds |-> NoTask]
  /\ executions = [x \in ExecIds |-> Unborn]
  /\ agentBusy = FALSE
  /\ riskCall = None
  /\ approvedAt = [p \in PositionIds |-> None]
  /\ policyReads = {}
  /\ AgentInit
  /\ BusInit
  /\ ExtInit

\* the id db.position.create gives the next row; the ids are opaque, so the
\* model hands them out in one order
NewPositionId ==
  IF ~IsSome(positions["p1"]) THEN "p1" ELSE "p2"

(***************************************************************************)
(* Environment.                                                            *)
(***************************************************************************)
\* time passes between two callbacks
Tick ==
  /\ dispatch = None
  /\ now + 1000 <= MaxTicks * 1000
  /\ now' = now + 1000
  /\ UNCHANGED <<agentVars, busVars, extVars>>
  /\ UNCHANGED <<riskParams, positions, positionOrder, devMetrics, policies,
                 lastExecutionTime, processing, dispatch, tasks, executions,
                 agentBusy, riskCall, approvedAt, policyReads>>

\* POST /positions after its buy is confirmed: the row is created and the
\* position is added to the State Engine
CreatePosition(p, mint, balance) ==
  /\ dispatch = None
  /\ ~IsSome(positions[p])
  /\ p = NewPositionId
  /\ positions' = addPosition(
       [id |-> p, mintAddress |-> mint, entryAmountSol |-> 1,
        tokenBalance |-> balance, status |-> "OPEN", closedAt |-> None])
  /\ positionOrder' = Append(positionOrder, p)
  /\ UNCHANGED <<agentVars, busVars, extVars>>
  /\ UNCHANGED <<now, riskParams, devMetrics, policies, lastExecutionTime,
                 processing, dispatch, tasks, executions, agentBusy, riskCall,
                 approvedAt, policyReads>>

releasedUnlessThrown(threw) == threw

\* finally { this.processing = false }: what processing is when processEvent
\* ends, by return or by a throw
Finally(threw) == FALSE

(***************************************************************************)
(* Orchestrator.processEvent.                                              *)
(***************************************************************************)
\* processEvent goes on after an await, with pi the index of the next position
\* and returned the executions once the awaited result is taken: either it
\* finishes (finally: processing = false) or it calls execute, which runs up
\* to its own first await
OrchestratorContinue(e, task, pi, returned) ==
  LET adv == Advance(task.event, task.triggered, task.ri, task.plist, pi)
  IN IF adv.kind = "finish"
     THEN /\ processing' = Finally(FALSE)
          /\ tasks' = [tasks EXCEPT ![e] = [NoTask EXCEPT !.pc = "done"]]
          /\ executions' = returned
          /\ UNCHANGED lastExecutionTime
     ELSE /\ FreeExecIds # {}
          /\ executions' = [returned EXCEPT ![NextExecId] =
               BeginExecution([kind |-> "orchestrator", event |-> e], adv.request)]
          /\ tasks' = [tasks EXCEPT ![e] =
               [task EXCEPT !.pc = "exec", !.ri = adv.ri, !.plist = adv.plist,
                            !.pi = adv.pi, !.exec = NextExecId,
                            !.issued = Append(task.issued, adv.request)]]
          /\ lastExecutionTime' = stampLastExecution(adv.request, evaluate(adv.request))
          /\ UNCHANGED processing

\* the continuation after `await this.executionEngine.execute(request)`
OrchestratorResume(e) ==
  /\ dispatch = None
  /\ tasks[e].pc = "exec"
  /\ executions[tasks[e].exec].pc = "returned"
  /\ OrchestratorContinue(e, tasks[e], tasks[e].pi + 1,
                          [executions EXCEPT ![tasks[e].exec] = Done])
  /\ UNCHANGED <<agentVars, busVars, extVars>>
  /\ UNCHANGED <<now, riskParams, positions, positionOrder, devMetrics, policies,
                 dispatch, agentBusy, riskCall, approvedAt, policyReads>>

(***************************************************************************)
(* EventBus.emit(event): emitter.emit('event', event), then                *)
(* emitter.emit(event.type, event).  Each call runs the listeners of its   *)
(* channel one after the other before it returns.                          *)
(***************************************************************************)
BornTasks == {e \in EventIds : tasks[e].pc # "unborn"}

ReadsMetrics(event) ==
  /\ event.type = "DEV_WALLET_SELL"
  /\ \E i \in 1..Len(policies) :
       /\ policies[i].isActive
       /\ policies[i].trigger \in {"DEV_SELL_PERCENTAGE", "DEV_SELL_COUNT"}

\* a policy evaluation of the event by reader, and whether the State Engine
\* had recorded the event's sell when it read the metrics
PolicyRead(event, reader) ==
  IF ReadsMetrics(event)
  THEN {[event |-> event.id, reader |-> reader, recorded |-> Recorded(event)]}
  ELSE {}

\* does the event, as it is emitted, bring the windowed sum (the event included)
\* to the threshold of an active DevSellPercentage / ExitPosition policy while
\* the Orchestrator is idle
QualifiesForExit(event) ==
  /\ event.type = "DEV_WALLET_SELL"
  /\ \A e \in EventIds : ~TaskActive(e)
  /\ \E i \in 1..Len(policies) :
       /\ policies[i].isActive
       /\ policies[i].trigger = "DEV_SELL_PERCENTAGE"
       /\ policies[i].action = "EXIT_POSITION"
       /\ getDevSellPercentageInWindow(event.mintAddress, event.devWallet,
            OrElse(policies[i].windowSeconds, DefaultWindowSeconds) * 1000)
          + (IF Recorded(event) THEN 0 ELSE event.percentageOfHoldings)
          >= policies[i].threshold

\* the Orchestrator's subscriber: processEvent up to its first await, which is
\* `await this.policyEngine.evaluateEvent(event)`; evaluateEvent has no await
\* of its own, so it has read the State Engine when the subscriber returns
OrchestratorListener(event) ==
  IF Gate
  THEN [NoTask EXCEPT !.pc = "dropped"]
  ELSE [NoTask EXCEPT !.pc = "evaluated", !.event = event,
          !.triggered = evaluateEvent(event),
          !.qualified = QualifiesForExit(event),
          !.openAtEmit = {p \in PositionIds :
             /\ IsSome(positions[p])
             /\ Get(positions[p]).status = "OPEN"
             /\ Get(positions[p]).mintAddress = event.mintAddress}]

\* emitter.emit('event', event): the Policy Engine's subscriber (evaluateEvent,
\* result dropped), then the Orchestrator's
EmitCatchAll(type, mint, devWallet, pct, change) ==
  /\ dispatch = None
  /\ Cardinality(BornTasks) < MaxEvents
  /\ LET id == Cardinality(BornTasks) + 1
         event == [id |-> id, type |-> type, timestamp |-> now, slot |-> id,
                   devWallet |-> devWallet, mintAddress |-> mint,
                   percentageOfHoldings |-> pct, changePercentage |-> change]
         task == OrchestratorListener(event)
     IN /\ Listeners("event") = <<"policyEngine", "orchestrator">>
        /\ tasks' = [tasks EXCEPT ![id] = task]
        /\ processing' = (processing \/ task.pc = "evaluated")
        /\ policyReads' = PolicyRead(event, "policyEngine") \cup
                          (IF task.pc = "evaluated"
                           THEN PolicyRead(event, "orchestrator") ELSE {})
        /\ dispatch' = Some(event)
  /\ UNCHANGED <<agentVars, busVars, extVars>>
  /\ UNCHANGED <<now, riskParams, positions, positionOrder, devMetrics, policies,
                 lastExecutionTime, executions, agentBusy, riskCall, approvedAt>>

EmitDevWalletSell ==
  \E mint \in EventMints, devWallet \in DevWallets, pct \in SellPercentagesOfHoldings :
    EmitCatchAll("DEV_WALLET_SELL", mint, devWallet, pct, 0)

EmitSupplyChange ==
  \E mint \in EventMints, change \in SupplyChangePercentages :
    EmitCatchAll("SUPPLY_CHANGE", mint, "", 0, change)

\* emitter.emit(event.type, event): the State Engine's subscriber when the
\* event is a DEV_WALLET_SELL; emit then returns, and the continuation of the
\* Orchestrator's `await evaluateEvent`, a microtask, runs before any other
\* callback
EmitTyped ==
  /\ IsSome(dispatch)
  /\ LET event == Get(dispatch)
     IN /\ devMetrics' = IF Listeners(event.type) = <<"stateEngine">>
                         THEN handleDevSell(event) ELSE devMetrics
        /\ sellLog' = IF Listeners(event.type) = <<"stateEngine">>
                      THEN Logged(event) ELSE sellLog
        /\ IF tasks[event.id].pc = "evaluated"
           THEN OrchestratorContinue(event.id, tasks[event.id], 1, executions)
           ELSE UNCHANGED <<processing, tasks, executions, lastExecutionTime>>
  /\ dispatch' = None
  /\ UNCHANGED <<agentVars, busVars, call, memoryVars, lifecycleVars, swarmVars>>
  /\ UNCHANGED <<now, riskParams, positions, positionOrder, policies,
                 agentBusy, riskCall, approvedAt, policyReads>>

(***************************************************************************)
(* Executor-agent: executeExit delegates an exit plan to the Execution     *)
(* Engine; tick runs one plan at a time.                                   *)
(***************************************************************************)
AgentExecuteExit(p, sellPercentage) ==
  /\ dispatch = None
  /\ ~agentBusy
  /\ FreeExecIds # {}
  /\ LET request == [positionId |-> p, policyId |-> "agent:sentinel",
                     action |-> IF sellPercentage >= 100 THEN "FULL_EXIT"
                                ELSE "PARTIAL_SELL",
                     sellPercentage |-> sellPercentage,
                     maxSlippageBps |-> riskParams.maxSlippageBps,
                     priorityFeeLamports |-> riskParams.maxPriorityFeeLamports]
     IN /\ executions' = [executions EXCEPT ![NextExecId] =
             BeginExecution([kind |-> "agent", event |-> 0], request)]
        /\ lastExecutionTime' = stampLastExecution(request, evaluate(request))
  /\ agentBusy' = TRUE
  /\ UNCHANGED <<agentVars, busVars, extVars>>
  /\ UNCHANGED <<now, riskParams, positions, positionOrder, devMetrics, policies,
                 processing, dispatch, tasks, riskCall, approvedAt, policyReads>>

AgentExitReturned(x) ==
  /\ dispatch = None
  /\ executions[x].pc = "returned"
  /\ executions[x].caller.kind = "agent"
  /\ executions' = [executions EXCEPT ![x] = Done]
  /\ agentBusy' = FALSE
  /\ UNCHANGED <<agentVars, busVars, extVars>>
  /\ UNCHANGED <<now, riskParams, positions, positionOrder, devMetrics, policies,
                 lastExecutionTime, processing, dispatch, tasks, riskCall,
                 approvedAt, policyReads>>

(***************************************************************************)
(* ExecutionEngine.execute after each of its awaits.                       *)
(***************************************************************************)
ExecFrame == <<agentVars, busVars, extVars, now, riskParams, positionOrder, devMetrics, policies,
               lastExecutionTime, processing, dispatch, tasks, agentBusy,
               riskCall, approvedAt, policyReads>>

\* the awaits before the simulation: getBondingCurveState (then the quote and
\* the slippage guard, which do not suspend) and buildSellTransaction; all
\* resolve, or one throws into the top-level catch
ExecPrepare(x) ==
  /\ dispatch = None
  /\ executions[x].pc = "prepare"
  /\ \/ executions' = [executions EXCEPT ![x].pc = "simulate"]
     \/ executions' = [executions EXCEPT ![x] = Caught(@, "rpc error")]
  /\ UNCHANGED positions
  /\ UNCHANGED ExecFrame

\* await simulateTransaction
ExecSimulate(x) ==
  /\ dispatch = None
  /\ executions[x].pc = "simulate"
  /\ \/ executions' = [executions EXCEPT ![x].pc = "send", ![x].simulated = TRUE]
     \/ executions' = [executions EXCEPT ![x] = SimulationFailed(@, "err")]
     \/ executions' = [executions EXCEPT ![x] = Caught(@, "rpc error")]
  /\ UNCHANGED positions
  /\ UNCHANGED ExecFrame

\* one attempt of sendWithRetries that is confirmed, and the state update of
\* execute that follows the return of the signature
ExecSendConfirmed(x) ==
  /\ dispatch = None
  /\ executions[x].pc = "send"
  /\ LET exec == executions[x]
         positionId == exec.request.positionId
         newBalance == Get(positions[positionId]).tokenBalance - exec.sellAmount
     IN /\ positions' = updatePosition(positionId, PositionUpdate(newBalance))
        /\ executions' = [executions EXCEPT ![x] =
             [exec EXCEPT !.pc = "persist", !.sends = exec.sends + 1, !.updated = TRUE,
                          !.failedAt = 0, !.wakeAt = 0,
                          !.result = ConfirmedResult(<<x, exec.attempt>>, exec.sellAmount)]]
  /\ UNCHANGED ExecFrame

\* one attempt of sendWithRetries that throws (the send, or the confirmation
\* reporting an error): a warning with the delay, then the rethrow or the
\* sleep before the next attempt
ExecSendFailed(x, errorMsg) ==
  /\ dispatch = None
  /\ executions[x].pc = "send"
  /\ LET exec == executions[x]
         delay == RetryDelay(exec.attempt)
         warned == [exec EXCEPT !.sends = exec.sends + 1,
                                !.warnings = Append(exec.warnings, delay)]
     IN executions' = [executions EXCEPT ![x] =
          IF exec.attempt = MAX_RETRIES - 1
          THEN Caught([warned EXCEPT !.failedAt = 0, !.wakeAt = 0], errorMsg)
          ELSE [warned EXCEPT !.pc = "sleep", !.failedAt = now,
                              !.wakeAt = now + delay]]
  /\ UNCHANGED positions
  /\ UNCHANGED ExecFrame

\* await this.sleep(delay) resolves: the timer's callback runs when the clock
\* has reached the time it was set for, and the loop goes to its next attempt;
\* the clock is followed up to clockLimit
ExecWake(x, clockLimit) ==
  /\ dispatch = None
  /\ executions[x].pc = "sleep"
  /\ executions[x].wakeAt <= clockLimit
  /\ now' = IF now >= executions[x].wakeAt THEN now ELSE executions[x].wakeAt
  /\ executions' = [executions EXCEPT ![x].pc = "send",
                                      ![x].attempt = executions[x].attempt + 1]
  /\ UNCHANGED <<agentVars, busVars, extVars>>
  /\ UNCHANGED <<riskParams, positions, positionOrder, devMetrics, policies,
                 lastExecutionTime, processing, dispatch, tasks, agentBusy,
                 riskCall, approvedAt, policyReads>>

\* await persistExecution: db.execution.create is handed the row; whether it
\* stores it or throws (which is only logged) execute goes on the same way, a
\* confirmed execution to updatePositionInDb, any other to its return
ExecPersist(x) ==
  /\ dispatch = None
  /\ executions[x].pc = "persist"
  /\ executions' = [executions EXCEPT
       ![x].persisted = Some(ExecutionRow(x, executions[x])),
       ![x].persistCalls = executions[x].persistCalls + 1,
       ![x].pc = IF executions[x].result.status = "CONFIRMED"
                 THEN "updateDb" ELSE "returned"]
  /\ UNCHANGED positions
  /\ UNCHANGED ExecFrame

\* await updatePositionInDb, then return result
ExecUpdateDb(x) ==
  /\ dispatch = None
  /\ executions[x].pc = "updateDb"
  /\ executions' = [executions EXCEPT ![x].pc = "returned"]
  /\ UNCHANGED positions
  /\ UNCHANGED ExecFrame

(***************************************************************************)
(* The pipeline.                                                           *)
(***************************************************************************)
Next ==
  \/ Tick
  \/ \E p \in PositionIds, mint \in Mints, balance \in OpeningBalances :
       CreatePosition(p, mint, balance)
  \/ EmitDevWalletSell
  \/ EmitSupplyChange
  \/ EmitTyped
  \/ \E e \in EventIds : OrchestratorResume(e)
  \/ \E p \in PositionIds, pct \in AgentSellPercentages : AgentExecuteExit(p, pct)
  \/ \E x \in ExecIds : AgentExitReturned(x)
  \/ \E x \in ExecIds : ExecPrepare(x)
  \/ \E x \in ExecIds : ExecSimulate(x)
  \/ \E x \in ExecIds : ExecSendConfirmed(x)
  \/ \E x \in ExecIds : ExecSendFailed(x, "Transaction failed: ")
  \/ \E x \in ExecIds : ExecWake(x, MaxTicks * 1000)
  \/ \E x \in ExecIds : ExecPersist(x)
  \/ \E x \in ExecIds : ExecUpdateDb(x)

Spec == Init /\ [][Next]_vars

(***************************************************************************)
(* The Risk Engine on its own: evaluate and resetCooldown called directly, *)
(* as the engines and the tests call them, while time passes.              *)
(***************************************************************************)
\* executionCooldownMs is any integer >= 0 in the environment schema
CooldownChoices == {0, 1000}
\* entryAmountSol of the position the State Engine has loaded
EntryAmountChoices == {1, 2}
RequestSlippages == {300, 301}
RequestPriorityFees == {100000, 100001}
RequestSellPercentages == {0, 50, 101}

RuleOrder ==
  <<"MAX_SLIPPAGE", "MAX_PRIORITY_FEE", "EXECUTION_COOLDOWN", "MAX_POSITION_SIZE",
    "INVALID_SELL_PERCENTAGE">>

\* StateEngine.start has loaded one open position, p1; p2 is not known
InitRisk ==
  /\ now = 1000
  /\ \E cooldown \in CooldownChoices :
       riskParams = [DefaultRiskParams EXCEPT !.executionCooldownMs = cooldown]
  /\ \E entry \in EntryAmountChoices :
       positions = [p \in PositionIds |->
         IF p = "p1"
         THEN Some([id |-> p, mintAddress |-> "m1", entryAmountSol |-> entry,
                    tokenBalance |-> 3, status |-> "OPEN", closedAt |-> None])
         ELSE None]
  /\ positionOrder = <<"p1">>
  /\ devMetrics = [k \in Mints \X DevWallets |-> None]
  /\ policies = LoadedPolicies
  /\ lastExecutionTime = [p \in PositionIds |-> None]
  /\ processing = FALSE
  /\ dispatch = None
  /\ tasks = [e \in EventIds |-> NoTask]
  /\ executions = [x \in ExecIds |-> Unborn]
  /\ agentBusy = FALSE
  /\ riskCall = None
  /\ approvedAt = [p \in PositionIds |-> None]
  /\ policyReads = {}
  /\ AgentInit
  /\ BusInit
  /\ ExtInit

\* riskEngine.evaluate(request): what it was called with, what it found, what
\* it returned and what it left in lastExecutionTime
RiskEvaluateCall(positionId, sellPercentage, maxSlippageBps, priorityFeeLamports) ==
  /\ LET request == [positionId |-> positionId, policyId |-> "pol",
                     action |-> "PARTIAL_SELL", sellPercentage |-> sellPercentage,
                     maxSlippageBps |-> maxSlippageBps,
                     priorityFeeLamports |-> priorityFeeLamports]
         check == evaluate(request)
         after == stampLastExecution(request, check)
     IN /\ riskCall' = Some(
             [request |-> request, time |-> now,
              position |-> getPosition(request.positionId),
              approvedBefore |-> approvedAt[request.positionId],
              lastBefore |-> lastExecutionTime[request.positionId],
              lastAfter |-> after[request.positionId],
              check |-> check])
        /\ lastExecutionTime' = after
        /\ approvedAt' = IF check.approved
                         THEN [approvedAt EXCEPT ![request.positionId] = Some(now)]
                         ELSE approvedAt
  /\ UNCHANGED <<agentVars, busVars, extVars>>
  /\ UNCHANGED <<now, riskParams, positions, positionOrder, devMetrics, policies,
                 processing, dispatch, tasks, executions, agentBusy, policyReads>>

\* riskEngine.resetCooldown(positionId)
ResetCooldownCall(positionId) ==
  /\ lastExecutionTime' = resetCooldown(positionId)
  /\ approvedAt' = [approvedAt EXCEPT ![positionId] = None]
  /\ riskCall' = None
  /\ UNCHANGED <<agentVars, busVars, extVars>>
  /\ UNCHANGED <<now, riskParams, positions, positionOrder, devMetrics, policies,
                 processing, dispatch, tasks, executions, agentBusy, policyReads>>

NextRisk ==
  \/ Tick
  \/ \E p \in PositionIds, slippage \in RequestSlippages,
        fee \in RequestPriorityFees, pct \in RequestSellPercentages :
       RiskEvaluateCall(p, pct, slippage, fee)
  \/ \E p \in PositionIds : ResetCooldownCall(p)

SpecRisk == InitRisk /\ [][NextRisk]_vars

(***************************************************************************)
(* The Execution Engine on its own: the executor-agent calls execute for a *)
(* loaded position (p1) or an unknown one (p2), one call at a time, and     *)
(* every retry timer is followed to its end.  Every call the engine awaits *)
(* (RPC, database, timer) settles: it resolves or it throws.               *)
(***************************************************************************)
\* the latest time a retry timer can be due: the clock's own ticks, then
\* the backoffs of every execution one after another
SendClockLimit ==
  MaxTicks * 1000 + MaxExecutions * BASE_RETRY_DELAY_MS * (Pow2(MAX_RETRIES - 1) - 1)

ExecStep(x) ==
  \/ ExecPrepare(x)
  \/ ExecSimulate(x)
  \/ ExecSendConfirmed(x)
  \/ ExecSendFailed(x, "Transaction failed: ")
  \/ ExecWake(x, SendClockLimit)
  \/ ExecPersist(x)
  \/ ExecUpdateDb(x)

NextExec ==
  \/ Tick
  \/ \E p \in PositionIds, pct \in AgentSellPercentages : AgentExecuteExit(p, pct)
  \/ \E x \in ExecIds : AgentExitReturned(x)
  \/ \E x \in ExecIds : ExecStep(x)

SpecExec ==
  /\ InitRisk
  /\ [][NextExec]_vars
  /\ \A x \in ExecIds : WF_vars(ExecStep(x))

(***************************************************************************)
(* Executor-agent: the queue of plans, tick, executePlan, executeEntry and *)
(* executeExit.  Messages arrive at any time; tick takes one plan at a     *)
(* time and runs it to its end.                                            *)
(***************************************************************************)
PlanActions == {"enter", "exit", "skip"}
PlanUrgencies == {"critical", "low"}
ThreatUrgencies == {"critical", "high"}
ThreatActions == {"full_exit", "partial_exit"}
\* plan.solAmount of an entry: missing (None) or given
PlanSolAmounts == {None, Some(1)}
\* plan.positionId of an exit: missing (None) or given
PlanPositionIds == {None, Some("p1")}

\* urgencyOrder[urgency] ?? 3
urgencyOrder(urgency) ==
  CASE urgency = "critical" -> 0
    [] urgency = "high" -> 1
    [] urgency = "medium" -> 2
    [] urgency = "low" -> 3
    [] OTHER -> 3

\* where a stable sort puts item in an already sorted queue: behind every
\* item that does not compare greater
InsertByUrgency(sorted, item) ==
  LET keep == Cardinality({i \in 1..Len(sorted) :
                urgencyOrder(sorted[i].plan.urgency) <= urgencyOrder(item.plan.urgency)})
  IN SubSeq(sorted, 1, keep) \o <<item>> \o SubSeq(sorted, keep + 1, Len(sorted))

\* queue.sort((a, b) => urgencyOrder[a] - urgencyOrder[b]): a stable sort
RECURSIVE SortByUrgency(_)
SortByUrgency(q) ==
  IF q = <<>> THEN <<>>
  ELSE InsertByUrgency(SortByUrgency(SubSeq(q, 1, Len(q) - 1)), q[Len(q)])

enqueueWithoutSort(q, plan) ==
  Append(q, [plan |-> plan, receivedAt |-> now])

\* enqueue(plan): push, then sort by urgency
enqueue(q, plan) ==
  SortByUrgency(Append(q, [plan |-> plan, receivedAt |-> now]))

unshiftAtTail(q, plan) ==
  Append(q, [plan |-> plan, receivedAt |-> now])

\* queue.unshift({ plan, receivedAt })
unshift(q, plan) ==
  <<[plan |-> plan, receivedAt |-> now]>> \o q

\* emitter.emit calls every listener registered for the channel: the handler
\* runs once per registration
RECURSIVE handledTimes(_, _, _, _)
handledTimes(q, plan, front, n) ==
  IF n = 0 THEN q
  ELSE handledTimes(IF front THEN unshift(q, plan) ELSE enqueue(q, plan),
                    plan, front, n - 1)

\* the 'execution-plan' handler
OnExecutionPlan(action, urgency, solAmount, positionId, mintAddress) ==
  /\ dispatch = None
  /\ plansSeen < MaxPlans
  /\ busListeners > 0
  /\ action = "enter" \/ solAmount = None
  /\ action = "exit" \/ positionId = None
  /\ plansSeen' = plansSeen + 1
  /\ queue' = handledTimes(queue,
       [id |-> plansSeen + 1, channel |-> "execution-plan", action |-> action,
        mintAddress |-> mintAddress,
        urgency |-> urgency, solAmount |-> solAmount, positionId |-> positionId,
        sellPercentage |-> None], FALSE, busListeners)
  /\ UNCHANGED <<current, handled, memoryInbox, busVars, extVars>>
  /\ UNCHANGED <<now, riskParams, positions, positionOrder, devMetrics, policies,
                 lastExecutionTime, processing, dispatch, tasks, executions,
                 agentBusy, riskCall, approvedAt, policyReads>>

\* the 'threat-exit' handler: the plan it builds goes to the front when the
\* exit is critical, and through enqueue otherwise
OnThreatExit(urgency, action, positionId, sellPercentage) ==
  /\ dispatch = None
  /\ plansSeen < MaxPlans
  /\ busListeners > 0
  /\ plansSeen' = plansSeen + 1
  /\ LET plan == [id |-> plansSeen + 1, channel |-> "threat-exit",
                  action |-> IF action = "full_exit" THEN "exit" ELSE "partial_exit",
                  mintAddress |-> Get(positions[positionId]).mintAddress,
                  urgency |-> urgency, solAmount |-> None,
                  positionId |-> Some(positionId),
                  sellPercentage |-> Some(sellPercentage)]
     IN queue' = handledTimes(queue, plan, urgency = "critical", busListeners)
  /\ UNCHANGED <<current, handled, memoryInbox, busVars, extVars>>
  /\ UNCHANGED <<now, riskParams, positions, positionOrder, devMetrics, policies,
                 lastExecutionTime, processing, dispatch, tasks, executions,
                 agentBusy, riskCall, approvedAt, policyReads>>

\* sendMessage('memory', 'execution-result', ...)
ExecutionResultMessage(plan, success) ==
  [to |-> "memory", channel |-> "execution-result", planId |-> plan.id,
   mintAddress |-> plan.mintAddress,
   action |-> plan.action, success |-> success,
   solAmount |-> IF plan.action = "enter" /\ success THEN plan.solAmount ELSE None,
   timestamp |-> now]

\* plan.action === 'exit' ? 100 : (plan.sellPercentage ?? 50)
ExitSellPercentage(plan) ==
  IF plan.action = "exit" THEN 100 ELSE OrElse(plan.sellPercentage, 50)

\* the request executeExit hands to the Execution Engine
ExitRequest(plan) ==
  [positionId |-> Get(plan.positionId), policyId |-> "agent:sentinel",
   action |-> IF ExitSellPercentage(plan) >= 100 THEN "FULL_EXIT" ELSE "PARTIAL_SELL",
   sellPercentage |-> ExitSellPercentage(plan),
   maxSlippageBps |-> riskParams.maxSlippageBps,
   priorityFeeLamports |-> riskParams.maxPriorityFeeLamports]

tickIgnoresProcessing == queue = <<>>

\* if (this.processing || this.queue.length === 0) return
TickReturnsAtOnce == agentBusy \/ queue = <<>>

\* tick: nothing while a plan is running or the queue is empty; otherwise the
\* head of the queue is taken and executePlan runs up to its first await.  A
\* skip, an entry without amount and an exit without positionId return at
\* once, and the finally block clears processing.
ExecutorTick ==
  /\ dispatch = None
  /\ running
  /\ ~TickReturnsAtOnce
  /\ queue' = Tail(queue)
  /\ LET plan == Head(queue).plan
     IN CASE plan.action = "skip" ->
               UNCHANGED <<current, handled, agentBusy, executions, lastExecutionTime>>
          [] plan.action = "enter" /\ (plan.solAmount = None \/ Get(plan.solAmount) <= 0) ->
               /\ handled' = handled \cup {plan.id}
               /\ UNCHANGED <<current, agentBusy, executions, lastExecutionTime>>
          [] plan.action = "enter" /\ plan.solAmount # None /\ Get(plan.solAmount) > 0 ->
               /\ current' = Some([plan |-> plan, pc |-> "curve", exec |-> 0])
               /\ agentBusy' = TRUE
               /\ UNCHANGED <<handled, executions, lastExecutionTime>>
          [] plan.action \in {"exit", "partial_exit"} /\ plan.positionId = None ->
               /\ handled' = handled \cup {plan.id}
               /\ UNCHANGED <<current, agentBusy, executions, lastExecutionTime>>
          [] plan.action \in {"exit", "partial_exit"} /\ plan.positionId # None ->
               /\ FreeExecIds # {}
               /\ executions' = [executions EXCEPT ![NextExecId] =
                    BeginExecution([kind |-> "agent", event |-> 0], ExitRequest(plan))]
               /\ lastExecutionTime' =
                    stampLastExecution(ExitRequest(plan), evaluate(ExitRequest(plan)))
               /\ current' = Some([plan |-> plan, pc |-> "exit", exec |-> NextExecId])
               /\ agentBusy' = TRUE
               /\ UNCHANGED handled
  /\ UNCHANGED <<plansSeen, memoryInbox, busVars, extVars>>
  /\ UNCHANGED <<now, riskParams, positions, positionOrder, devMetrics, policies,
                 processing, dispatch, tasks, riskCall, approvedAt, policyReads>>

AgentFrame == <<queue, plansSeen, busVars, extVars, now, riskParams, positions, positionOrder,
                devMetrics, policies, lastExecutionTime, processing, dispatch,
                tasks, executions, riskCall, approvedAt, policyReads>>

\* executePlan is over: tick's finally block clears processing
PlanEnded(plan) ==
  /\ current' = None
  /\ agentBusy' = FALSE
  /\ handled' = handled \cup {plan.id}

\* executeEntry returns without a word
EntryAbandoned ==
  /\ PlanEnded(Get(current).plan)
  /\ UNCHANGED memoryInbox

\* executeEntry throws into the catch of executePlan, which reports the failure
EntryThrew ==
  /\ PlanEnded(Get(current).plan)
  /\ memoryInbox' = Append(memoryInbox, ExecutionResultMessage(Get(current).plan, FALSE))

EntryGoes(pc) ==
  /\ current' = Some([Get(current) EXCEPT !.pc = pc])
  /\ UNCHANGED <<agentBusy, handled, memoryInbox>>

\* await getBondingCurveState(mint)
EntryCurve ==
  /\ dispatch = None
  /\ current # None /\ Get(current).pc = "curve"
  /\ \/ EntryGoes("build")
     \/ EntryAbandoned
     \/ EntryThrew
  /\ UNCHANGED AgentFrame

\* await buildBuyInstruction, await import, await getLatestBlockhash
EntryBuild ==
  /\ dispatch = None
  /\ current # None /\ Get(current).pc = "build"
  /\ \/ EntryGoes("simulate")
     \/ EntryThrew
  /\ UNCHANGED AgentFrame

\* await connection.simulateTransaction(tx)
EntrySimulate ==
  /\ dispatch = None
  /\ current # None /\ Get(current).pc = "simulate"
  /\ \/ EntryGoes("send")
     \/ EntryAbandoned
     \/ EntryThrew
  /\ UNCHANGED AgentFrame

\* await connection.sendRawTransaction(...), then the report to memory
EntrySend ==
  /\ dispatch = None
  /\ current # None /\ Get(current).pc = "send"
  /\ \/ /\ PlanEnded(Get(current).plan)
        /\ memoryInbox' = Append(memoryInbox,
             ExecutionResultMessage(Get(current).plan, TRUE))
     \/ EntryThrew
  /\ UNCHANGED AgentFrame

\* the continuation of executeExit after `await executionEngine.execute(...)`
PlanExitReturned(x) ==
  /\ dispatch = None
  /\ current # None /\ Get(current).pc = "exit" /\ Get(current).exec = x
  /\ executions[x].pc = "returned"
  /\ memoryInbox' = Append(memoryInbox,
       ExecutionResultMessage(Get(current).plan,
                              executions[x].result.status = "CONFIRMED"))
  /\ PlanEnded(Get(current).plan)
  /\ executions' = [executions EXCEPT ![x] = Done]
  /\ UNCHANGED <<queue, plansSeen, busVars, extVars>>
  /\ UNCHANGED <<now, riskParams, positions, positionOrder, devMetrics, policies,
                 lastExecutionTime, processing, dispatch, tasks, riskCall,
                 approvedAt, policyReads>>

NextAgent ==
  \/ \E action \in PlanActions, urgency \in PlanUrgencies,
        solAmount \in PlanSolAmounts, positionId \in PlanPositionIds :
       OnExecutionPlan(action, urgency, solAmount, positionId, "m1")
  \/ \E urgency \in ThreatUrgencies, action \in ThreatActions :
       OnThreatExit(urgency, action, "p1", 100)
  \/ ExecutorTick
  \/ EntryCurve
  \/ EntryBuild
  \/ EntrySimulate
  \/ EntrySend
  \/ \E x \in ExecIds : ExecStep(x)
  \/ \E x \in ExecIds : PlanExitReturned(x)

\* the agent starts with position p1 loaded and the default risk parameters
InitAgent ==
  /\ InitRisk
  /\ riskParams = DefaultRiskParams
  /\ Get(positions["p1"]).entryAmountSol = 1

SpecAgent == InitAgent /\ [][NextAgent]_vars

(***************************************************************************)
(* Signal bus (IntelBus): every node publishes to and consumes from one    *)
(* Redis stream per channel, each with its NODE_ID as consumer name in the *)
(* one consumer group.  Redis does what its commands are documented to do: *)
(* XADD appends; XGROUP CREATE ... 0 makes a group that starts before the  *)
(* first entry; XREADGROUP ... '>' returns the entries no consumer of the  *)
(* group was given yet, moves the group's last-delivered position past     *)
(* them and records them as pending for the reader; XACK removes a pending *)
(* entry.  The commands themselves succeed.                                *)
(***************************************************************************)
\* COUNT of the blocking read
BatchSize == 50

Min(a, b) == IF a <= b THEN a ELSE b

BusFrame == <<agentVars, extVars, now, riskParams, positions, positionOrder, devMetrics,
              policies, lastExecutionTime, processing, dispatch, tasks,
              executions, agentBusy, riskCall, approvedAt, policyReads>>

\* publish(channel, type, data): XADD of the signal, authored by this node
Publish(n) ==
  /\ Len(stream) < MaxSignals
  /\ stream' = Append(stream, [payload |-> [nodeId |-> n]])
  /\ UNCHANGED <<groupCreated, lastDelivered, pending, consuming, batch,
                 dispatched, acked>>
  /\ UNCHANGED BusFrame

\* startConsuming(): the group is created unless it exists, then the poll
\* timer is set
StartConsuming(n) ==
  /\ ~consuming[n]
  /\ consuming' = [consuming EXCEPT ![n] = TRUE]
  /\ groupCreated' = TRUE
  /\ UNCHANGED <<stream, lastDelivered, pending, batch, dispatched, acked>>
  /\ UNCHANGED BusFrame

\* consumeTick up to the reply of XREADGROUP GROUP cyclawps <nodeId> COUNT 50
\* ... '>': a reply without entries ends the tick
ConsumeTick(n) ==
  /\ consuming[n]
  /\ groupCreated
  /\ lastDelivered < Len(stream)
  /\ LET last == Min(Len(stream), lastDelivered + BatchSize)
         reply == [k \in 1..(last - lastDelivered) |-> lastDelivered + k]
     IN /\ lastDelivered' = last
        /\ pending' = pending \cup {<<n, reply[k]>> : k \in 1..Len(reply)}
        /\ batch' = [batch EXCEPT ![n] = Append(@, [messages |-> reply, handler |-> 1])]
  /\ UNCHANGED <<stream, groupCreated, consuming, dispatched, acked>>
  /\ UNCHANGED BusFrame

isOwnNever(n, signal) == FALSE

\* signal.nodeId === this.nodeId
IsOwn(n, signal) == signal.nodeId = n

\* the reply r of node n with its first message left out: the loop goes on to
\* the next message, and a reply gone through is dropped
NextMessage(n, r) ==
  IF Len(batch[n][r].messages) = 1
  THEN [batch EXCEPT ![n] =
          SubSeq(@, 1, r - 1) \o SubSeq(@, r + 1, Len(@))]
  ELSE [batch EXCEPT ![n][r] = [messages |-> Tail(@.messages), handler |-> 1]]

\* XACK of the first message of reply r
Xack(n, r) ==
  /\ acked' = acked \cup {<<n, Head(batch[n][r].messages)>>}
  /\ pending' = pending \ {<<n, Head(batch[n][r].messages)>>}

\* a message this node published: acknowledged and skipped
SkipOwn(n, r) ==
  /\ r \in DOMAIN batch[n]
  /\ batch[n][r].handler = 1
  /\ IsOwn(n, stream[Head(batch[n][r].messages)].payload)
  /\ Xack(n, r)
  /\ batch' = NextMessage(n, r)
  /\ UNCHANGED <<stream, groupCreated, lastDelivered, consuming, dispatched>>
  /\ UNCHANGED BusFrame

handlerAfterIgnoredThrow(handler, outcome) == handler + 1

\* which handler is next after one has run: the following one, or none (0)
\* when it threw into the catch of the message
HandlerAfter(handler, outcome) ==
  IF outcome = "threw" THEN 0 ELSE handler + 1

\* await handler(signal) for the next handler of the first message of reply r
RunHandler(n, r, outcome) ==
  /\ r \in DOMAIN batch[n]
  /\ batch[n][r].handler \in Handlers
  /\ ~IsOwn(n, stream[Head(batch[n][r].messages)].payload)
  /\ dispatched' = [dispatched EXCEPT ![n] =
       Append(@, <<Head(batch[n][r].messages), batch[n][r].handler, outcome>>)]
  /\ batch' = IF HandlerAfter(batch[n][r].handler, outcome) = 0
              THEN NextMessage(n, r)
              ELSE [batch EXCEPT ![n][r].handler = HandlerAfter(@, outcome)]
  /\ UNCHANGED <<stream, groupCreated, lastDelivered, pending, consuming, acked>>
  /\ UNCHANGED BusFrame

\* every handler has returned: XACK, then the next message
Acknowledge(n, r) ==
  /\ r \in DOMAIN batch[n]
  /\ batch[n][r].handler \notin Handlers
  /\ Xack(n, r)
  /\ batch' = NextMessage(n, r)
  /\ UNCHANGED <<stream, groupCreated, lastDelivered, consuming, dispatched>>
  /\ UNCHANGED BusFrame

\* the replies a node can be going through at once
Replies == 1..MaxSignals

\* what the consume loop of node n does to the messages it was given
ConsumeStep(n) ==
  \E r \in Replies :
    \/ SkipOwn(n, r)
    \/ \E outcome \in {"ok", "threw"} : RunHandler(n, r, outcome)
    \/ Acknowledge(n, r)

NextBus ==
  \/ \E n \in Nodes : Publish(n)
  \/ \E n \in Nodes : StartConsuming(n)
  \/ \E n \in Nodes : ConsumeTick(n)
  \/ \E n \in Nodes : ConsumeStep(n)

\* every node starts its bus at boot, the poll timer keeps firing, and a
\* handler or a Redis command that was awaited settles
SpecBus ==
  /\ Init
  /\ [][NextBus]_vars
  /\ \A n \in Nodes :
       /\ WF_vars(StartConsuming(n))
       /\ WF_vars(ConsumeTick(n))
       /\ WF_vars(ConsumeStep(n))

(***************************************************************************)
(* The State Engine's handler of DevWalletSell events on its own: the      *)
(* events reach handleDevSell one at a time.  The k-th sell handled for a  *)
(* (mint, devWallet) carries slot k, which tells the sells apart.          *)
(***************************************************************************)
MetricsKeys == Mints \X DevWallets

\* totalSellCount of a key, 0 before its first sell
SellCount(key) ==
  IF IsSome(devMetrics[key]) THEN Get(devMetrics[key]).totalSellCount ELSE 0

RECURSIVE SumSellCounts(_)
SumSellCounts(keys) ==
  IF keys = {} THEN 0
  ELSE LET key == CHOOSE k \in keys : TRUE
       IN SellCount(key) + SumSellCounts(keys \ {key})

\* the DevWalletSell events handled so far
SellsHandled == SumSellCounts(MetricsKeys)

\* the timestamps an event can carry: Date.now() at its emission, which is
\* the wall clock and can step back between two emissions
EventTimestamps == {1000, 2000, 3000}

\* the State Engine's 'DEV_WALLET_SELL' listener: handleDevSell(event)
HandleDevSellCall(mint, devWallet, timestamp, percentage, maxCalls) ==
  /\ dispatch = None
  /\ SellsHandled < maxCalls
  /\ LET event == [NoEvent EXCEPT !.id = 1, !.type = "DEV_WALLET_SELL",
                       !.timestamp = timestamp,
                       !.slot = SellCount(<<mint, devWallet>>) + 1,
                       !.devWallet = devWallet, !.mintAddress = mint,
                       !.percentageOfHoldings = percentage]
     IN /\ devMetrics' = handleDevSell(event)
        /\ sellLog' = Logged(event)
  /\ UNCHANGED <<agentVars, busVars, call, memoryVars, lifecycleVars, swarmVars>>
  /\ UNCHANGED <<now, riskParams, positions, positionOrder, policies,
                 lastExecutionTime, processing, dispatch, tasks, executions,
                 agentBusy, riskCall, approvedAt, policyReads>>

\* sells stamped with the current time, for either mint, until the ring of a
\* key has been full and has evicted
NextRing ==
  \E mint \in Mints, devWallet \in DevWallets :
    HandleDevSellCall(mint, devWallet, now, 10, MaxSells)

SpecRing == Init /\ [][NextRing]_vars

\* a few sells that carry any of the timestamps
NextStamps ==
  \E devWallet \in DevWallets, timestamp \in EventTimestamps :
    HandleDevSellCall("m1", devWallet, timestamp, 10, MaxStampedSells)

SpecStamps == Init /\ [][NextStamps]_vars

(***************************************************************************)
(* The State Engine's window query, called directly between sells that     *)
(* carry any timestamp and any percentage.                                 *)
(***************************************************************************)
\* everything but the record of the last direct call
CallFrame == <<agentVars, busVars, sellLog, memoryVars, lifecycleVars, swarmVars, now, riskParams, positions, positionOrder,
               devMetrics, policies, lastExecutionTime, processing, dispatch,
               tasks, executions, agentBusy, riskCall, approvedAt, policyReads>>

\* the windows a caller asks for, in milliseconds
WindowChoices == {0, 1000, DefaultWindowSeconds * 1000}

\* stateEngine.getDevSellPercentageInWindow(mint, devWallet, windowMs)
WindowCall(mint, devWallet, windowMs) ==
  /\ dispatch = None
  /\ call' = [op |-> "getDevSellPercentageInWindow",
              args |-> <<mint, devWallet, windowMs>>,
              result |-> getDevSellPercentageInWindow(mint, devWallet, windowMs)]
  /\ UNCHANGED CallFrame

NextWindow ==
  \/ Tick
  \/ \E timestamp \in EventTimestamps, pct \in SellPercentagesOfHoldings :
       HandleDevSellCall("m1", "d1", timestamp, pct, MaxStampedSells)
  \/ \E mint \in Mints, devWallet \in DevWallets, windowMs \in WindowChoices :
       WindowCall(mint, devWallet, windowMs)

SpecWindow == Init /\ [][NextWindow]_vars

\* the percentage of holdings the k-th sell of a key carries
PercentageOfSell(k) == IF k % 2 = 1 THEN 10 ELSE 30

\* sells of alternating size for either mint, until the ring of a key has
\* been full and has evicted
NextTotals ==
  \E mint \in Mints, devWallet \in DevWallets :
    HandleDevSellCall(mint, devWallet, now,
                      PercentageOfSell(sellLog[<<mint, devWallet>>].count + 1),
                      MaxSells)

SpecTotals == Init /\ [][NextTotals]_vars

(***************************************************************************)
(* PumpFun service: the bonding-curve quotes and the slippage guard, over  *)
(* bigint.  A quote is Some(quote), or None when the function throws.      *)
(***************************************************************************)
DEFAULT_FEE_BPS == 100

\* Math.max
Max(a, b) == IF a >= b THEN a ELSE b

BondingCurveState(vToken, vSol, rToken, rSol) ==
  [virtualTokenReserves |-> vToken, virtualSolReserves |-> vSol,
   realTokenReserves |-> rToken, realSolReserves |-> rSol]

buyQuoteUncapped(state, solAmountIn) ==
  LET netSol == BigIntDiv(solAmountIn * 10000, 10000 + DEFAULT_FEE_BPS)
  IN IF state.virtualSolReserves + netSol = 0 THEN None
     ELSE
  LET tokensOut == BigIntDiv(netSol * state.virtualTokenReserves,
                             state.virtualSolReserves + netSol)
      capped == tokensOut
  IN IF state.virtualTokenReserves = 0 THEN None
     ELSE
  LET spotPrice == BigIntDiv(state.virtualSolReserves * 10000,
                             state.virtualTokenReserves)
  IN IF solAmountIn > 0 /\ capped = 0 THEN None
     ELSE
  LET execPrice == IF solAmountIn > 0
                   THEN BigIntDiv(solAmountIn * 10000, capped) ELSE 0
      impact == IF spotPrice > 0
                THEN BigIntDiv((execPrice - spotPrice) * 10000, spotPrice)
                ELSE 0
  IN Some([amountIn |-> solAmountIn, amountOut |-> capped,
           priceImpactBps |-> Max(0, impact)])

\* calculateBuyQuote(state, solAmountIn); a bigint division by zero throws
calculateBuyQuote(state, solAmountIn) ==
  LET netSol == BigIntDiv(solAmountIn * 10000, 10000 + DEFAULT_FEE_BPS)
  IN IF state.virtualSolReserves + netSol = 0 THEN None
     ELSE
  LET tokensOut == BigIntDiv(netSol * state.virtualTokenReserves,
                             state.virtualSolReserves + netSol)
      capped == IF tokensOut > state.realTokenReserves
                THEN state.realTokenReserves ELSE tokensOut
  IN IF state.virtualTokenReserves = 0 THEN None
     ELSE
  LET spotPrice == BigIntDiv(state.virtualSolReserves * 10000,
                             state.virtualTokenReserves)
  IN IF solAmountIn > 0 /\ capped = 0 THEN None
     ELSE
  LET execPrice == IF solAmountIn > 0
                   THEN BigIntDiv(solAmountIn * 10000, capped) ELSE 0
      impact == IF spotPrice > 0
                THEN BigIntDiv((execPrice - spotPrice) * 10000, spotPrice)
                ELSE 0
  IN Some([amountIn |-> solAmountIn, amountOut |-> capped,
           priceImpactBps |-> Max(0, impact)])

\* calculateSellQuote(state, tokenAmountIn); a bigint division by zero throws
calculateSellQuote(state, tokenAmountIn) ==
  IF state.virtualTokenReserves + tokenAmountIn = 0 THEN None
  ELSE
  LET grossSol == BigIntDiv(tokenAmountIn * state.virtualSolReserves,
                            state.virtualTokenReserves + tokenAmountIn)
      netSol == BigIntDiv(grossSol * (10000 - DEFAULT_FEE_BPS), 10000)
      capped == IF netSol > state.realSolReserves
                THEN state.realSolReserves ELSE netSol
  IN IF state.virtualTokenReserves = 0 THEN None
     ELSE
  LET spotPrice == BigIntDiv(state.virtualSolReserves * 10000,
                             state.virtualTokenReserves)
      execPrice == IF tokenAmountIn > 0
                   THEN BigIntDiv(capped * 10000, tokenAmountIn) ELSE 0
      impact == IF spotPrice > 0
                THEN BigIntDiv((spotPrice - execPrice) * 10000, spotPrice)
                ELSE 0
  IN Some([amountIn |-> tokenAmountIn, amountOut |-> capped,
           priceImpactBps |-> Max(0, impact)])

slippageSidesSwapped(amount, slippageBps, isBuy) ==
  IF isBuy
  THEN BigIntDiv(amount * (10000 - slippageBps), 10000)
  ELSE BigIntDiv(amount * (10000 + slippageBps), 10000)

\* applySlippage(amount, slippageBps, isBuy)
applySlippage(amount, slippageBps, isBuy) ==
  IF isBuy
  THEN BigIntDiv(amount * (10000 + slippageBps), 10000)
  ELSE BigIntDiv(amount * (10000 - slippageBps), 10000)

\* the reserves of the curves quoted, and the amounts asked for
VirtualTokenChoices == {0, 1000}
VirtualSolChoices == {0, 30}
RealTokenChoices == {0, 5, 800}
RealSolChoices == {0, 5, 30}
SolAmountChoices == {0, 1, 2, 10, 20}
TokenAmountChoices == {0, 1, 10, 500}
SlippageAmounts == {0, 1, 3, 100, 9999, 10001}
SlippageBpsChoices == {0, 1, 300, 10000, 10003}

\* pumpfun.calculateBuyQuote(state, solAmountIn)
BuyQuoteCall(vToken, vSol, rToken, rSol, solAmountIn) ==
  /\ LET state == BondingCurveState(vToken, vSol, rToken, rSol)
     IN call' = [op |-> "calculateBuyQuote", args |-> <<state, solAmountIn>>,
                 result |-> calculateBuyQuote(state, solAmountIn)]
  /\ UNCHANGED CallFrame

\* pumpfun.calculateSellQuote(state, tokenAmountIn)
SellQuoteCall(vToken, vSol, rToken, rSol, tokenAmountIn) ==
  /\ LET state == BondingCurveState(vToken, vSol, rToken, rSol)
     IN call' = [op |-> "calculateSellQuote", args |-> <<state, tokenAmountIn>>,
                 result |-> calculateSellQuote(state, tokenAmountIn)]
  /\ UNCHANGED CallFrame

\* pumpfun.applySlippage(amount, slippageBps, isBuy)
SlippageCall(amount, slippageBps, isBuy) ==
  /\ call' = [op |-> "applySlippage", args |-> <<amount, slippageBps, isBuy>>,
              result |-> applySlippage(amount, slippageBps, isBuy)]
  /\ UNCHANGED CallFrame

NextPump ==
  \/ \E vToken \in VirtualTokenChoices, vSol \in VirtualSolChoices,
        rToken \in RealTokenChoices, rSol \in RealSolChoices :
       \/ \E solAmountIn \in SolAmountChoices :
            BuyQuoteCall(vToken, vSol, rToken, rSol, solAmountIn)
       \/ \E tokenAmountIn \in TokenAmountChoices :
            SellQuoteCall(vToken, vSol, rToken, rSol, tokenAmountIn)
  \/ \E amount \in SlippageAmounts, slippageBps \in SlippageBpsChoices,
        isBuy \in BOOLEAN :
       SlippageCall(amount, slippageBps, isBuy)

SpecPump == Init /\ [][NextPump]_vars

(***************************************************************************)
(* The Policy Engine's evaluateEvent, called directly while policies are   *)
(* added and removed through the API and sells are recorded.               *)
(***************************************************************************)
MaxPolicies == 3
MaxPolicySells == 2

\* the policies POST /policies creates; db.policy.create gives each its id
PolicyPool ==
  << [id |-> "polCount", trigger |-> "DEV_SELL_COUNT", threshold |-> 2,
      windowSeconds |-> None, action |-> "ALERT_ONLY",
      actionParams |-> None, priority |-> 1, isActive |-> TRUE],
     [id |-> "polDrop", trigger |-> "PRICE_DROP_PERCENTAGE", threshold |-> 0,
      windowSeconds |-> None, action |-> "EXIT_POSITION",
      actionParams |-> None, priority |-> 9, isActive |-> TRUE],
     [id |-> "polOff", trigger |-> "DEV_SELL_PERCENTAGE", threshold |-> 10,
      windowSeconds |-> None, action |-> "EXIT_POSITION",
      actionParams |-> None, priority |-> 9, isActive |-> FALSE],
     [id |-> "polHalt", trigger |-> "DEV_SELL_PERCENTAGE", threshold |-> 60,
      windowSeconds |-> None, action |-> "HALT_STRATEGY",
      actionParams |-> None, priority |-> 2, isActive |-> TRUE] >>

PolicyIds == {policies[i].id : i \in 1..Len(policies)}

\* policyEngine.addPolicy(policy), from POST /policies
AddPolicyCall(i) ==
  /\ Len(policies) < MaxPolicies
  /\ PolicyPool[i].id \notin PolicyIds
  /\ policies' = Append(policies, PolicyPool[i])
  /\ UNCHANGED <<agentVars, busVars, extVars>>
  /\ UNCHANGED <<now, riskParams, positions, positionOrder, devMetrics,
                 lastExecutionTime, processing, dispatch, tasks, executions,
                 agentBusy, riskCall, approvedAt, policyReads>>

\* policyEngine.removePolicy(policyId), from DELETE /policies/:id
RemovePolicyCall(policyId) ==
  /\ policyId \in PolicyIds
  /\ policies' = SelectSeq(policies, LAMBDA p : p.id # policyId)
  /\ UNCHANGED <<agentVars, busVars, extVars>>
  /\ UNCHANGED <<now, riskParams, positions, positionOrder, devMetrics,
                 lastExecutionTime, processing, dispatch, tasks, executions,
                 agentBusy, riskCall, approvedAt, policyReads>>

\* policyEngine.evaluateEvent(event)
EvaluateEventCall(type, changePercentage) ==
  /\ LET event == [NoEvent EXCEPT !.id = 1, !.type = type, !.timestamp = now,
                     !.devWallet = IF type = "DEV_WALLET_SELL" THEN "d1" ELSE "",
                     !.mintAddress = "m1",
                     !.changePercentage = changePercentage]
     IN call' = [op |-> "evaluateEvent", args |-> <<event>>,
                 result |-> evaluateEvent(event)]
  /\ UNCHANGED CallFrame

NextPolicy ==
  \/ \E i \in 1..Len(PolicyPool) : AddPolicyCall(i)
  \/ \E policyId \in PolicyIds : RemovePolicyCall(policyId)
  \/ HandleDevSellCall("m1", "d1", now, 30, MaxPolicySells)
  \/ EvaluateEventCall("DEV_WALLET_SELL", 0)
  \/ \E pct \in SupplyChangePercentages \cup {10} :
       EvaluateEventCall("SUPPLY_CHANGE", pct)

SpecPolicy == Init /\ [][NextPolicy]_vars

(***************************************************************************)
(* The executor-agent paused and resumed by the swarm.                     *)
(***************************************************************************)
MaxRegistrations == 2

\* Agent.stop: running is cleared, the timer is cancelled, the handler map is
\* cleared and the executor's onStop empties the queue; the listeners
\* registered on the EventBus emitter stay
PauseAgent ==
  /\ dispatch = None
  /\ running
  /\ running' = FALSE
  /\ messageHandlers' = {}
  /\ queue' = <<>>
  /\ UNCHANGED busListeners
  /\ UNCHANGED <<current, plansSeen, handled, memoryInbox, busVars, call, sellLog,
                 memoryVars, swarmVars>>
  /\ UNCHANGED <<now, riskParams, positions, positionOrder, devMetrics, policies,
                 lastExecutionTime, processing, dispatch, tasks, executions,
                 agentBusy, riskCall, approvedAt, policyReads>>

\* Agent.start: running is set, onStart registers a new handler for each
\* channel in the map and on the emitter, and the timer is set
ResumeAgent ==
  /\ dispatch = None
  /\ ~running
  /\ busListeners < MaxRegistrations
  /\ running' = TRUE
  /\ messageHandlers' = AgentChannels
  /\ busListeners' = busListeners + 1
  /\ UNCHANGED <<agentVars, busVars, call, sellLog, memoryVars, swarmVars>>
  /\ UNCHANGED <<now, riskParams, positions, positionOrder, devMetrics, policies,
                 lastExecutionTime, processing, dispatch, tasks, executions,
                 agentBusy, riskCall, approvedAt, policyReads>>

NextLifecycle ==
  \/ PauseAgent
  \/ ResumeAgent
  \/ \E action \in {"enter", "skip"} :
       OnExecutionPlan(action, "low", IF action = "enter" THEN Some(1) ELSE None,
                       None, "m1")
  \/ OnThreatExit("critical", "full_exit", "p1", 100)
  \/ ExecutorTick
  \/ EntryCurve
  \/ EntryBuild
  \/ EntrySimulate
  \/ EntrySend
  \/ \E x \in ExecIds : ExecStep(x)
  \/ \E x \in ExecIds : PlanExitReturned(x)

SpecLifecycle == InitAgent /\ [][NextLifecycle]_vars

(***************************************************************************)
(* Memory agent: the 'execution-result' handler pushes each result on      *)
(* pendingResults as the executor sends it; tick drains them into outcomes *)
(* and evaluates the closed positions.                                     *)
(***************************************************************************)
\* MemoryAgent.pendingResults: the results received and not yet shifted
pendingResults == SubSeq(memoryInbox, resultsTaken + 1, Len(memoryInbox))

\* a JavaScript number used as a condition: set and not 0
Truthy(v) == IsSome(v) /\ Get(v) # 0

\* context[key]: undefined (None) for a key the object does not have
ContextGet(context, key) ==
  IF key \in DOMAIN context THEN Some(context[key]) ELSE None

\* the outcome processResult(result) pushes
processResult(result) ==
  [decisionId |-> result.planId, agentRole |-> "executor",
   action |-> result.action, mintAddress |-> result.mintAddress,
   timestamp |-> result.timestamp,
   context |-> [success |-> result.success],
   entryPrice |-> IF result.action = "enter" /\ result.success /\ Truthy(result.solAmount)
                  THEN result.solAmount ELSE None,
   exitPrice |-> None, pnlPercent |-> None, wasCorrect |-> None]

RECURSIVE processAll(_, _)
processAll(outs, results) ==
  IF results = <<>> THEN outs
  ELSE processAll(Append(outs, processResult(Head(results))), Tail(results))

\* sendMessage('strategist', 'outcome', ...)
OutcomeMessage(mintAddress, pnlPercent, wasCorrect) ==
  [to |-> "strategist", channel |-> "outcome", mintAddress |-> mintAddress,
   pnlPercent |-> pnlPercent, wasCorrect |-> wasCorrect]

\* evaluateClosedPositions from the i-th outcome on: the outcomes as the loop
\* leaves them and the messages it sends
RECURSIVE evaluateClosedPositions(_, _, _)
evaluateClosedPositions(i, outs, sent) ==
  IF i > Len(outs) THEN [outcomes |-> outs, sent |-> sent]
  ELSE
  LET outcome == outs[i]
  IN IF outcome.action # "enter" \/ outcome.exitPrice # None
     THEN evaluateClosedPositions(i + 1, outs, sent)
     ELSE
  LET found == getPositionsByMint(outcome.mintAddress)
      closed == SelectSeq(found,
                  LAMBDA id : /\ Get(positions[id]).status = "CLOSED"
                              /\ Get(positions[id]).mintAddress = outcome.mintAddress)
      exits == SelectSeq(outs,
                 LAMBDA o : /\ o.mintAddress = outcome.mintAddress
                            /\ o.action \in {"exit", "partial_exit"}
                            /\ o.timestamp > outcome.timestamp)
  IN IF /\ closed # <<>>
        /\ Truthy(outcome.entryPrice)
        /\ exits # <<>>
        /\ Truthy(ContextGet(exits[1].context, "solReceived"))
     THEN LET solReceived == Get(ContextGet(exits[1].context, "solReceived"))
              entryPrice == Get(outcome.entryPrice)
              pnlPercent == ((solReceived - entryPrice) * 100) \div entryPrice
              wasCorrect == solReceived - entryPrice > 0
          IN evaluateClosedPositions(i + 1,
               [outs EXCEPT ![i] = [@ EXCEPT !.exitPrice = Some(solReceived),
                                             !.pnlPercent = Some(pnlPercent),
                                             !.wasCorrect = Some(wasCorrect)]],
               Append(sent, OutcomeMessage(outcome.mintAddress, pnlPercent, wasCorrect)))
     ELSE evaluateClosedPositions(i + 1, outs, sent)

\* MemoryAgent.tick: the pending results become outcomes, then the closed
\* positions are evaluated
MemoryTick ==
  /\ dispatch = None
  /\ LET evaluated == evaluateClosedPositions(1, processAll(outcomes, pendingResults), <<>>)
     IN /\ outcomes' = evaluated.outcomes
        /\ strategistInbox' = strategistInbox \o evaluated.sent
  /\ resultsTaken' = Len(memoryInbox)
  /\ UNCHANGED <<agentVars, busVars, call, sellLog, lifecycleVars, swarmVars>>
  /\ UNCHANGED <<now, riskParams, positions, positionOrder, devMetrics, policies,
                 lastExecutionTime, processing, dispatch, tasks, executions,
                 agentBusy, riskCall, approvedAt, policyReads>>

\* the executor-agent enters either mint and exits position p1; the clock
\* ticks; the memory agent ticks
NextMemory ==
  \/ Tick
  \/ \E mintAddress \in Mints :
       OnExecutionPlan("enter", "low", Some(1), None, mintAddress)
  \/ OnThreatExit("critical", "full_exit", "p1", 100)
  \/ ExecutorTick
  \/ EntryCurve
  \/ EntryBuild
  \/ EntrySimulate
  \/ EntrySend
  \/ \E x \in ExecIds : ExecStep(x)
  \/ \E x \in ExecIds : PlanExitReturned(x)
  \/ MemoryTick

\* setInterval runs every agent's tick again and again, and every awaited
\* call of a plan settles
SpecMemory ==
  /\ InitAgent
  /\ [][NextMemory]_vars
  /\ WF_vars(MemoryTick)
  /\ WF_vars(ExecutorTick)
  /\ WF_vars(EntryCurve) /\ WF_vars(EntryBuild)
  /\ WF_vars(EntrySimulate) /\ WF_vars(EntrySend)
  /\ \A x \in ExecIds : WF_vars(ExecStep(x)) /\ WF_vars(PlanExitReturned(x))

(***************************************************************************)
(* The Orchestrator with two positions open on the mint and two policies   *)
(* that a supply change triggers, of any two kinds of action.              *)
(***************************************************************************)
\* policy.action and policy.actionParams of the policies POST /policies creates
ActionVariants ==
  << [action |-> "EXIT_POSITION", actionParams |-> None],
     [action |-> "PARTIAL_SELL", actionParams |-> None],
     [action |-> "PARTIAL_SELL",
      actionParams |-> Some([sellPercentage |-> Some(30),
                             maxSlippageBps |-> Some(100),
                             priorityFeeLamports |-> None])],
     [action |-> "HALT_STRATEGY",
      actionParams |-> Some([sellPercentage |-> None,
                             maxSlippageBps |-> None,
                             priorityFeeLamports |-> Some(5000)])],
     [action |-> "ALERT_ONLY", actionParams |-> None] >>

SupplyPolicyOf(id, variant, priority) ==
  [id |-> id, trigger |-> "SUPPLY_INCREASE", threshold |-> 20,
   windowSeconds |-> None, action |-> ActionVariants[variant].action,
   actionParams |-> ActionVariants[variant].actionParams,
   priority |-> priority, isActive |-> TRUE]

\* started with the open positions p1, on m1, and p2, on either mint, loaded
InitOrch ==
  /\ now = 1000
  /\ riskParams = DefaultRiskParams
  /\ \E mint \in Mints :
       positions = [p \in PositionIds |->
         Some([id |-> p, mintAddress |-> IF p = "p1" THEN "m1" ELSE mint,
               entryAmountSol |-> 1, tokenBalance |-> 3, status |-> "OPEN",
               closedAt |-> None])]
  /\ positionOrder = <<"p1", "p2">>
  /\ devMetrics = [k \in Mints \X DevWallets |-> None]
  /\ \E a, b \in 1..Len(ActionVariants) :
       /\ a # b
       /\ policies = <<SupplyPolicyOf("polA", a, 2), SupplyPolicyOf("polB", b, 1)>>
  /\ lastExecutionTime = [p \in PositionIds |-> None]
  /\ processing = FALSE
  /\ dispatch = None
  /\ tasks = [e \in EventIds |-> NoTask]
  /\ executions = [x \in ExecIds |-> Unborn]
  /\ agentBusy = FALSE
  /\ riskCall = None
  /\ approvedAt = [p \in PositionIds |-> None]
  /\ policyReads = {}
  /\ AgentInit
  /\ BusInit
  /\ ExtInit

NextOrch ==
  \/ EmitSupplyChange
  \/ EmitTyped
  \/ \E e \in EventIds : OrchestratorResume(e)
  \/ \E x \in ExecIds : ExecStep(x)

SpecOrch == InitOrch /\ [][NextOrch]_vars

\* the same, with every await of execute settling: the database call of a
\* rejected execution resolves or throws, and execute goes on either way; the
\* two emits of EventBus.emit are one synchronous call, so the second follows
\* the first
SpecHalt ==
  /\ InitOrch
  /\ [][NextOrch]_vars
  /\ WF_vars(EmitTyped)
  /\ \A x \in ExecIds : WF_vars(ExecStep(x))

\* processEvent ends by a throw out of its try block, which the subscriber's
\* .catch logs: here `await this.policyEngine.evaluateEvent(event)` rejects,
\* as the second emit of EventBus.emit returns
EmitTypedRejects ==
  /\ IsSome(dispatch)
  /\ tasks[Get(dispatch).id].pc = "evaluated"
  /\ LET event == Get(dispatch)
     IN /\ devMetrics' = IF Listeners(event.type) = <<"stateEngine">>
                         THEN handleDevSell(event) ELSE devMetrics
        /\ sellLog' = IF Listeners(event.type) = <<"stateEngine">>
                      THEN Logged(event) ELSE sellLog
        /\ tasks' = [tasks EXCEPT ![event.id] = [NoTask EXCEPT !.pc = "failed"]]
  /\ processing' = Finally(TRUE)
  /\ dispatch' = None
  /\ UNCHANGED <<agentVars, busVars, call, memoryVars, lifecycleVars, swarmVars>>
  /\ UNCHANGED <<now, riskParams, positions, positionOrder, policies,
                 lastExecutionTime, executions, agentBusy, riskCall, approvedAt,
                 policyReads>>

\* and here handleTriggeredPolicy throws once the execute it awaited is over
OrchestratorFails(e) ==
  /\ dispatch = None
  /\ tasks[e].pc = "exec"
  /\ executions[tasks[e].exec].pc = "returned"
  /\ processing' = Finally(TRUE)
  /\ tasks' = [tasks EXCEPT ![e] = [NoTask EXCEPT !.pc = "failed"]]
  /\ executions' = [executions EXCEPT ![tasks[e].exec] = Done]
  /\ UNCHANGED <<agentVars, busVars, extVars>>
  /\ UNCHANGED <<now, riskParams, positions, positionOrder, devMetrics, policies,
                 lastExecutionTime, dispatch, agentBusy, riskCall, approvedAt,
                 policyReads>>

NextGate ==
  \/ EmitSupplyChange
  \/ EmitTyped
  \/ EmitTypedRejects
  \/ \E e \in EventIds : OrchestratorResume(e)
  \/ \E e \in EventIds : OrchestratorFails(e)
  \/ \E x \in ExecIds : ExecStep(x)

\* every promise processEvent awaits settles, and the second emit of
\* EventBus.emit follows the first
SpecGate ==
  /\ InitOrch
  /\ [][NextGate]_vars
  /\ WF_vars(EmitTyped \/ EmitTypedRejects)
  /\ \A e \in EventIds : WF_vars(OrchestratorResume(e) \/ OrchestratorFails(e))
  /\ \A x \in ExecIds : WF_vars(ExecStep(x))

(***************************************************************************)
(* Sentinel: tick walks the open positions and checks each one that was   *)
(* not checked in the last ten seconds; monitorPosition gathers threats    *)
(* over three awaits, publishes the high and critical ones, and sends a    *)
(* threat-exit to the executor at once for a critical threat, or after the *)
(* reasoning service's answer otherwise.  Every token has the dev wallet   *)
(* d1 in tracked_tokens.                                                   *)
(***************************************************************************)
CheckIntervalMs == 10000
DevSellWindowMs == 600000
ClusterSizeLimit == 10

SentinelFrame == <<graphVars, startVars, scoreVars, current, handled, memoryInbox, groupCreated, lastDelivered, pending,
                   consuming, batch, dispatched, acked, call, sellLog, memoryVars,
                   lifecycleVars, riskParams, positions, positionOrder,
                   policies, lastExecutionTime, processing, dispatch, tasks,
                   executions, agentBusy, riskCall, approvedAt, policyReads>>

\* stateEngine.getOpenPositions(), in the order of the map
getOpenPositions ==
  SelectSeq(positionOrder,
    LAMBDA id : IsSome(positions[id]) /\ Get(positions[id]).status = "OPEN")

\* sellPct > 30 ? 'critical' : sellPct > 15 ? 'high' : 'medium'
DevSellSeverity(sellPct) ==
  IF sellPct > 30 THEN "critical" ELSE IF sellPct > 15 THEN "high" ELSE "medium"

\* the positions of the loop from the first one that is due:
\* if (Date.now() - lastChecked < 10_000) continue
RECURSIVE DueFrom(_)
DueFrom(todo) ==
  IF todo = <<>> THEN <<>>
  ELSE IF now - OrElse(lastCheck[Head(todo)], 0) < CheckIntervalMs
       THEN DueFrom(Tail(todo))
       ELSE todo

NewCheck(positionId) ==
  [positionId |-> positionId, at |-> now, threats |-> <<>>, sent |-> <<>>,
   llm |-> FALSE, ended |-> FALSE]

\* the for loop of tick over what is left of openPositions: the next due
\* position is stamped and monitorPosition runs up to `await getDevWallet`;
\* without one, tick returns
LoopFrom(t, todo, log) ==
  LET due == DueFrom(todo)
  IN IF due = <<>>
     THEN /\ sentinelTicks' = [sentinelTicks EXCEPT ![t] = IdleTick]
          /\ checks' = log
          /\ UNCHANGED lastCheck
     ELSE /\ Len(log) < MaxChecks
          /\ lastCheck' = [lastCheck EXCEPT ![Head(due)] = Some(now)]
          /\ checks' = Append(log, NewCheck(Head(due)))
          /\ sentinelTicks' = [sentinelTicks EXCEPT ![t] =
               [pc |-> "devWallet", todo |-> Tail(due), check |-> Len(log) + 1,
                threats |-> <<>>, publish |-> 0]]

\* monitorPosition is over, by return or by a throw that tick catches
CheckEnds(t, log) ==
  LoopFrom(t, sentinelTicks[t].todo,
           [log EXCEPT ![sentinelTicks[t].check].ended = TRUE,
                       ![sentinelTicks[t].check].threats = sentinelTicks[t].threats])

\* sendMessage('executor', 'threat-exit', ...): the executor's handler runs
\* before sendMessage returns
SentinelSends(positionId, urgency, action, sellPercentage) ==
  /\ plansSeen < MaxPlans
  /\ plansSeen' = plansSeen + 1
  /\ LET plan == [id |-> plansSeen + 1, channel |-> "threat-exit",
                  action |-> IF action = "full_exit" THEN "exit" ELSE "partial_exit",
                  mintAddress |-> Get(positions[positionId]).mintAddress,
                  urgency |-> urgency, solAmount |-> None,
                  positionId |-> Some(positionId),
                  sellPercentage |-> Some(sellPercentage)]
     IN queue' = handledTimes(queue, plan, urgency = "critical", busListeners)

Sent(log, t, urgency, action, sellPercentage) ==
  [log EXCEPT ![sentinelTicks[t].check].sent =
     Append(@, [urgency |-> urgency, action |-> action,
                sellPercentage |-> sellPercentage])]

\* the setInterval callback of Agent.start calls tick
SentinelTick(t) ==
  /\ dispatch = None
  /\ sentinelRunning
  /\ sentinelTicks[t].pc = "idle"
  /\ \A u \in SentinelTickIds : sentinelTicks[u].pc = "idle" => t <= u
  /\ getOpenPositions # <<>>
  /\ LoopFrom(t, getOpenPositions, checks)
  /\ UNCHANGED <<devWalletCache, sentinelRunning, now, queue, plansSeen, stream, devMetrics>>
  /\ UNCHANGED SentinelFrame

\* await getDevWallet(mint) resolves, from the cache or from the database, or
\* the query throws; then the dev sells of the last ten minutes are read
SentinelDevWallet(t, threw) ==
  /\ dispatch = None
  /\ sentinelTicks[t].pc = "devWallet"
  /\ LET position == Get(positions[checks[sentinelTicks[t].check].positionId])
         mint == position.mintAddress
         sellPct == getDevSellPercentageInWindow(mint, "d1", DevSellWindowMs)
     IN IF threw
        THEN /\ mint \notin devWalletCache
             /\ CheckEnds(t, checks)
             /\ UNCHANGED devWalletCache
        ELSE /\ devWalletCache' = devWalletCache \cup {mint}
             /\ sentinelTicks' = [sentinelTicks EXCEPT ![t].pc = "curve",
                  ![t].threats = IF sellPct > 5 THEN <<DevSellSeverity(sellPct)>> ELSE <<>>]
             /\ UNCHANGED <<lastCheck, checks>>
  /\ UNCHANGED <<sentinelRunning, now, queue, plansSeen, stream, devMetrics>>
  /\ UNCHANGED SentinelFrame

\* await pumpfun.getBondingCurveState(mint) resolves or throws into the
\* empty catch; complete says whether it resolved with a completed curve
SentinelCurve(t, complete) ==
  /\ dispatch = None
  /\ sentinelTicks[t].pc = "curve"
  /\ sentinelTicks' = [sentinelTicks EXCEPT ![t].pc = "cluster",
       ![t].threats = IF complete THEN Append(@, "high") ELSE @]
  /\ UNCHANGED <<lastCheck, devWalletCache, sentinelRunning, checks, now, queue,
                 plansSeen, stream, devMetrics>>
  /\ UNCHANGED SentinelFrame

\* the first threat from index i on that is published
RECURSIVE NextPublished(_, _)
NextPublished(threats, i) ==
  IF i > Len(threats) THEN 0
  ELSE IF threats[i] \in {"high", "critical"} THEN i
       ELSE NextPublished(threats, i + 1)

HasSeverity(threats, severity) == \E i \in 1..Len(threats) : threats[i] = severity

\* `await this.deps.llm.reasonJSON(...)` is reached
AsksReasoning(t, threats) ==
  /\ sentinelTicks' = [sentinelTicks EXCEPT ![t].pc = "llm", ![t].threats = threats]
  /\ checks' = [checks EXCEPT ![sentinelTicks[t].check].llm = TRUE,
                              ![sentinelTicks[t].check].threats = threats]
  /\ UNCHANGED <<lastCheck, queue, plansSeen>>

\* after the publish loop: a critical threat sends the exit and returns
AfterPublishing(t, threats) ==
  IF HasSeverity(threats, "critical")
  THEN /\ SentinelSends(checks[sentinelTicks[t].check].positionId,
                        "critical", "full_exit", 100)
       /\ CheckEnds(t, Sent(checks, t, "critical", "full_exit", 100))
  ELSE AsksReasoning(t, threats)

\* await walletGraph.getClusterSize(devWallet, 2) resolves with clusterSize
\* or throws; with threats, the first publish is awaited or, with none to
\* publish, the reasoning service is asked
SentinelCluster(t, clusterSize, threw) ==
  /\ dispatch = None
  /\ sentinelTicks[t].pc = "cluster"
  /\ LET threats == IF clusterSize > ClusterSizeLimit
                    THEN Append(sentinelTicks[t].threats, "medium")
                    ELSE sentinelTicks[t].threats
     IN IF threw \/ threats = <<>>
        THEN /\ CheckEnds(t, checks)
             /\ UNCHANGED <<queue, plansSeen>>
        ELSE IF NextPublished(threats, 1) # 0
             THEN /\ sentinelTicks' = [sentinelTicks EXCEPT ![t].pc = "publish",
                       ![t].threats = threats,
                       ![t].publish = NextPublished(threats, 1)]
                  /\ UNCHANGED <<lastCheck, checks, queue, plansSeen>>
             ELSE AsksReasoning(t, threats)
  /\ UNCHANGED <<devWalletCache, sentinelRunning, now, stream, devMetrics>>
  /\ UNCHANGED SentinelFrame

\* await intelBus.publish('rugs', 'threat', ...) resolves after its XADD, or
\* rejects and monitorPosition throws
SentinelPublish(t, threw) ==
  /\ dispatch = None
  /\ sentinelTicks[t].pc = "publish"
  /\ LET threats == sentinelTicks[t].threats
         next == NextPublished(threats, sentinelTicks[t].publish + 1)
     IN IF threw
        THEN /\ CheckEnds(t, checks)
             /\ UNCHANGED <<stream, queue, plansSeen>>
        ELSE /\ stream' = Append(stream, [payload |-> [nodeId |-> "n1"]])
             /\ IF next # 0
                THEN /\ sentinelTicks' = [sentinelTicks EXCEPT ![t].publish = next]
                     /\ UNCHANGED <<lastCheck, checks, queue, plansSeen>>
                ELSE AfterPublishing(t, threats)
  /\ UNCHANGED <<devWalletCache, sentinelRunning, now, devMetrics>>
  /\ UNCHANGED SentinelFrame

\* await llm.reasonJSON(...) resolves with an assessment that recommends an
\* exit or none, or throws: then a high threat sends a full exit
SentinelLlm(t, answer) ==
  /\ dispatch = None
  /\ sentinelTicks[t].pc = "llm"
  /\ LET positionId == checks[sentinelTicks[t].check].positionId
     IN CASE answer = "exit" ->
               /\ SentinelSends(positionId, "high", "partial_exit", 50)
               /\ CheckEnds(t, Sent(checks, t, "high", "partial_exit", 50))
          [] answer = "threw" /\ HasSeverity(sentinelTicks[t].threats, "high") ->
               /\ SentinelSends(positionId, "high", "full_exit", 100)
               /\ CheckEnds(t, Sent(checks, t, "high", "full_exit", 100))
          [] OTHER ->
               /\ CheckEnds(t, checks)
               /\ UNCHANGED <<queue, plansSeen>>
  /\ UNCHANGED <<devWalletCache, sentinelRunning, now, stream, devMetrics>>
  /\ UNCHANGED SentinelFrame

\* Agent.stop of the sentinel: onStop clears lastCheck and devWalletCache
SentinelPause ==
  /\ dispatch = None
  /\ sentinelRunning
  /\ sentinelRunning' = FALSE
  /\ lastCheck' = [p \in PositionIds |-> None]
  /\ devWalletCache' = {}
  /\ UNCHANGED <<sentinelTicks, checks, now, queue, plansSeen, stream, devMetrics>>
  /\ UNCHANGED SentinelFrame

\* Agent.start of the sentinel
SentinelResume ==
  /\ dispatch = None
  /\ ~sentinelRunning
  /\ sentinelRunning' = TRUE
  /\ UNCHANGED <<lastCheck, devWalletCache, sentinelTicks, checks, now, queue,
                 plansSeen, stream, devMetrics>>
  /\ UNCHANGED SentinelFrame

\* time passes, half a check interval at a time
SentinelClock ==
  /\ dispatch = None
  /\ now + CheckIntervalMs \div 2 <= CheckIntervalMs + MaxClockSteps * (CheckIntervalMs \div 2)
  /\ now' = now + CheckIntervalMs \div 2
  /\ UNCHANGED <<sentinelVars, queue, plansSeen, stream, devMetrics>>
  /\ UNCHANGED SentinelFrame

\* percentageOfHoldings of the dev sells the sentinel reads: a medium threat
\* and a critical one
SentinelSellPercentages == {10, 40}
\* what getClusterSize resolves with: the dev wallet has no cluster
ClusterSizes == {0}

\* started with the open positions p1 and p2 on m1 loaded, at a time of
\* day that is more than a check interval after the epoch
InitSentinel ==
  /\ now = CheckIntervalMs
  /\ riskParams = DefaultRiskParams
  /\ positions = [p \in PositionIds |->
       Some([id |-> p, mintAddress |-> "m1", entryAmountSol |-> 1,
             tokenBalance |-> 3, status |-> "OPEN", closedAt |-> None])]
  /\ positionOrder = <<"p1", "p2">>
  /\ devMetrics = [k \in Mints \X DevWallets |-> None]
  /\ policies = LoadedPolicies
  /\ lastExecutionTime = [p \in PositionIds |-> None]
  /\ processing = FALSE
  /\ dispatch = None
  /\ tasks = [e \in EventIds |-> NoTask]
  /\ executions = [x \in ExecIds |-> Unborn]
  /\ agentBusy = FALSE
  /\ riskCall = None
  /\ approvedAt = [p \in PositionIds |-> None]
  /\ policyReads = {}
  /\ AgentInit
  /\ BusInit
  /\ ExtInit

NextSentinel ==
  \/ \E t \in SentinelTickIds : SentinelTick(t)
  \/ \E t \in SentinelTickIds, threw \in BOOLEAN : SentinelDevWallet(t, threw)
  \/ \E t \in SentinelTickIds, complete \in BOOLEAN : SentinelCurve(t, complete)
  \/ \E t \in SentinelTickIds, clusterSize \in ClusterSizes, threw \in BOOLEAN :
       SentinelCluster(t, clusterSize, threw)
  \/ \E t \in SentinelTickIds, threw \in BOOLEAN : SentinelPublish(t, threw)
  \/ \E t \in SentinelTickIds, answer \in {"exit", "hold", "threw"} : SentinelLlm(t, answer)
  \/ SentinelPause
  \/ SentinelResume
  \/ SentinelClock
  \/ \E pct \in SentinelSellPercentages :
       HandleDevSellCall("m1", "d1", now, pct, MaxSentinelSells)

SpecSentinel == InitSentinel /\ [][NextSentinel]_vars

(***************************************************************************)
(* Wallet graph: addEdge writes the edge and the two adjacency sets;       *)
(* getCluster is a breadth-first search over both sets.  Keys do not       *)
(* expire within a run.  A call of addEdge is followed to its end: SADD    *)
(* commutes, so calls that overlap leave the sets of some order of them.   *)
(***************************************************************************)
GraphFrame == <<agentVars, busVars, sellLog, memoryVars, lifecycleVars, sentinelVars,
                startVars, scoreVars,
                now, riskParams, positions, positionOrder, devMetrics, policies,
                lastExecutionTime, processing, dispatch, tasks, executions,
                agentBusy, riskCall, approvedAt, policyReads>>

\* how many addEdge calls have been made: the txCount of the edges
RECURSIVE SumTxCount(_)
SumTxCount(pairs) ==
  IF pairs = {} THEN 0
  ELSE LET e == CHOOSE x \in pairs : TRUE
       IN (IF IsSome(graphEdges[e]) THEN Get(graphEdges[e]).txCount ELSE 0)
          + SumTxCount(pairs \ {e})

\* addEdge(from, to, type)
AddEdgeCall(from, to) ==
  /\ SumTxCount(Wallets \X Wallets) < MaxAddEdges
  /\ LET existing == graphEdges[<<from, to>>]
         edge == IF IsSome(existing)
                 THEN [Get(existing) EXCEPT !.lastSeen = now, !.txCount = @ + 1]
                 ELSE [from |-> from, to |-> to, type |-> "associated",
                       firstSeen |-> now, lastSeen |-> now, txCount |-> 1]
     IN graphEdges' = [graphEdges EXCEPT ![<<from, to>>] = Some(edge)]
  /\ graphOut' = [graphOut EXCEPT ![from] = @ \cup {to}]
  /\ graphIn' = [graphIn EXCEPT ![to] = @ \cup {from}]
  /\ call' = [op |-> "addEdge", args |-> <<from, to>>, result |-> <<>>]
  /\ UNCHANGED GraphFrame

\* the members of a set in the order SMEMBERS replies with: some order
RECURSIVE Members(_)
Members(s) ==
  IF s = {} THEN <<>>
  ELSE LET x == CHOOSE y \in s : TRUE
       IN <<x>> \o Members(s \ {x})

Elements(seq) == {seq[i] : i \in 1..Len(seq)}

getConnectedOutgoingOnly(wallet) == Members(graphOut[wallet])

\* getConnected(wallet): [...new Set([...outgoing, ...incoming])]
getConnected(wallet) ==
  Members(graphOut[wallet]) \o
    SelectSeq(Members(graphIn[wallet]), LAMBDA w : w \notin graphOut[wallet])

\* for (const neighbor of connected): the unvisited ones are added to
\* visited and to nextFrontier, in order
RECURSIVE VisitNeighbors(_, _, _, _)
VisitNeighbors(connected, i, visited, nextFrontier) ==
  IF i > Len(connected) THEN [visited |-> visited, nextFrontier |-> nextFrontier]
  ELSE IF connected[i] \in Elements(visited)
       THEN VisitNeighbors(connected, i + 1, visited, nextFrontier)
       ELSE VisitNeighbors(connected, i + 1, Append(visited, connected[i]),
                           Append(nextFrontier, connected[i]))

\* for (const node of frontier)
RECURSIVE VisitFrontier(_, _, _, _)
VisitFrontier(frontier, i, visited, nextFrontier) ==
  IF i > Len(frontier) THEN [visited |-> visited, nextFrontier |-> nextFrontier]
  ELSE LET after == VisitNeighbors(getConnected(frontier[i]), 1, visited, nextFrontier)
       IN VisitFrontier(frontier, i + 1, after.visited, after.nextFrontier)

\* for (let depth = 0; depth < maxDepth; depth++), with its break
RECURSIVE Levels(_, _, _, _)
Levels(depth, maxDepth, visited, frontier) ==
  IF depth >= maxDepth THEN visited
  ELSE LET after == VisitFrontier(frontier, 1, visited, <<>>)
       IN IF after.nextFrontier = <<>> THEN after.visited
          ELSE Levels(depth + 1, maxDepth, after.visited, after.nextFrontier)

\* getCluster(wallet, maxDepth): visited in insertion order, the starting
\* wallet deleted
getCluster(wallet, maxDepth) ==
  SelectSeq(Levels(0, maxDepth, <<wallet>>, <<wallet>>), LAMBDA w : w # wallet)

MaxDepthChoices == {0, 1, 2, 3}

GetClusterCall(wallet, maxDepth) ==
  /\ call' = [op |-> "getCluster", args |-> <<wallet, maxDepth>>,
              result |-> getCluster(wallet, maxDepth)]
  /\ UNCHANGED CallFrame

NextGraph ==
  \/ \E from, to \in Wallets : AddEdgeCall(from, to)
  \/ \E wallet \in Wallets, maxDepth \in MaxDepthChoices : GetClusterCall(wallet, maxDepth)

SpecGraph == Init /\ [][NextGraph]_vars

(***************************************************************************)
(* Agent.start and Agent.stop, called by the swarm for all agents at once  *)
(* (Swarm.start, Swarm.stop) and for one (resumeAgent, pauseAgent).  The   *)
(* hooks onStart and onStop are the subclass's: onStart is awaited and may *)
(* reject, which Swarm.start catches and logs and resumeAgent passes on.   *)
(***************************************************************************)
\* start() up to `await this.onStart()`
StartCall(agent) ==
  IF agent.running
  THEN [agent EXCEPT !.starts = agent.starts + 1, !.outcome = "returned at once"]
  ELSE [agent EXCEPT !.starts = agent.starts + 1, !.running = TRUE, !.pc = "onStart"]

\* the rest of start() once onStart has resolved: this.timer = setInterval(...)
ArmTimer(agent) ==
  [agent EXCEPT !.timer = TRUE, !.intervals = agent.intervals + 1,
                !.pc = "idle", !.outcome = "started"]

\* onStart rejected: the await throws and start() ends there
StartThrows(agent) ==
  [agent EXCEPT !.pc = "idle", !.outcome = "threw"]

\* stop() up to `await this.onStop()`, after which it only logs
StopCall(agent) ==
  IF ~agent.running
  THEN agent
  ELSE [agent EXCEPT !.running = FALSE, !.timer = FALSE,
                     !.intervals = IF agent.timer THEN agent.intervals - 1
                                   ELSE agent.intervals]

StartFrame == <<agentVars, busVars, call, sellLog, memoryVars, lifecycleVars,
                sentinelVars, graphVars, scoreVars,
                now, riskParams, positions, positionOrder, devMetrics, policies,
                lastExecutionTime, processing, dispatch, tasks, executions,
                agentBusy, riskCall, approvedAt, policyReads>>

\* a call of start() is followed while no other call of it is in flight on the
\* same agent
MayStart(agent) == agent.pc = "idle" /\ agent.starts < MaxStartCalls

\* Swarm.start: every agent's start() runs up to its first await
SwarmStart ==
  /\ ~swarmRunning
  /\ \A role \in Roles : MayStart(agents[role])
  /\ swarmRunning' = TRUE
  /\ agents' = [role \in Roles |-> StartCall(agents[role])]
  /\ UNCHANGED StartFrame

\* Swarm.stop: every agent's stop() runs up to its first await
SwarmStop ==
  /\ swarmRunning
  /\ swarmRunning' = FALSE
  /\ agents' = [role \in Roles |-> StopCall(agents[role])]
  /\ UNCHANGED StartFrame

\* Swarm.resumeAgent(role)
SwarmResumeAgent(role) ==
  /\ MayStart(agents[role])
  /\ agents' = [agents EXCEPT ![role] = StartCall(@)]
  /\ UNCHANGED <<swarmRunning, StartFrame>>

\* Swarm.pauseAgent(role)
SwarmPauseAgent(role) ==
  /\ agents[role].running
  /\ agents' = [agents EXCEPT ![role] = StopCall(@)]
  /\ UNCHANGED <<swarmRunning, StartFrame>>

\* `await this.onStart()` is over
AgentOnStartEnds(role, threw) ==
  /\ agents[role].pc = "onStart"
  /\ agents' = [agents EXCEPT ![role] = IF threw THEN StartThrows(@) ELSE ArmTimer(@)]
  /\ UNCHANGED <<swarmRunning, StartFrame>>

\* the interval callback: if (!this.running) return; this.tickCount++; tick()
AgentTimerFires(role) ==
  /\ agents[role].intervals > 0
  /\ agents[role].running
  /\ agents[role].tickCount < MaxTickCount
  /\ agents' = [agents EXCEPT ![role].tickCount = @ + 1]
  /\ UNCHANGED <<swarmRunning, StartFrame>>

NextStart ==
  \/ SwarmStart
  \/ SwarmStop
  \/ \E role \in Roles : SwarmResumeAgent(role)
  \/ \E role \in Roles : SwarmPauseAgent(role)
  \/ \E role \in Roles, threw \in BOOLEAN : AgentOnStartEnds(role, threw)
  \/ \E role \in Roles : AgentTimerFires(role)

SpecStart == Init /\ [][NextStart]_vars

(***************************************************************************)
(* DeployerScoreEngine.recordLaunch: getProfile (GET), the new profile     *)
(* built from what was read, setProfile (SET with expiry, then ZADD).      *)
(* Redis executes each command at once at some moment between its issue    *)
(* and its reply; calls overlap when the scout's ticks do, the interval    *)
(* callback not waiting for the tick before it.  Keys do not expire within *)
(* a run.                                                                  *)
(***************************************************************************)
\* [...new Set(seq)]: the first occurrence of each element, in order
RECURSIVE Dedup(_)
Dedup(seq) ==
  IF seq = <<>> THEN <<>>
  ELSE LET init == Dedup(SubSeq(seq, 1, Len(seq) - 1))
           last == seq[Len(seq)]
       IN IF \E i \in 1..Len(init) : init[i] = last THEN init ELSE Append(init, last)

\* computeScore for the profiles recordLaunch builds while no rug has been
\* recorded: rugRate 0, avgTokenLifespanMs 0 and lastSeen = now leave the
\* base of 50, the launch bonus min(15, 1.5 * totalLaunches) and the penalty
\* min(15, 3 * connectedWallets.length); Math.round takes a half upwards, and
\* the clamp to [0, 100] does not bind
computeScore(profile) ==
  LET twice == 100 + Min(30, 3 * profile.totalLaunches)
                   - Min(30, 6 * Len(profile.connectedWallets))
  IN (twice + 1) \div 2

\* the profile recordLaunch builds from the one it read
LaunchProfile(deployer, existing, connectedWallets) ==
  LET profile ==
        [address |-> deployer,
         totalLaunches |-> (IF IsSome(existing) THEN Get(existing).totalLaunches ELSE 0) + 1,
         rugCount |-> IF IsSome(existing) THEN Get(existing).rugCount ELSE 0,
         rugRate |-> IF IsSome(existing) THEN Get(existing).rugRate ELSE 0,
         avgTokenLifespanMs |-> IF IsSome(existing) THEN Get(existing).avgTokenLifespanMs ELSE 0,
         connectedWallets |->
           Dedup((IF IsSome(existing) THEN Get(existing).connectedWallets ELSE <<>>)
                 \o connectedWallets),
         lastSeen |-> now]
  IN [address |-> profile.address, totalLaunches |-> profile.totalLaunches,
      rugCount |-> profile.rugCount, rugRate |-> profile.rugRate,
      avgTokenLifespanMs |-> profile.avgTokenLifespanMs,
      connectedWallets |-> profile.connectedWallets, lastSeen |-> profile.lastSeen,
      score |-> computeScore(profile)]

ScoreFrame == <<agentVars, busVars, call, sellLog, memoryVars, lifecycleVars,
                sentinelVars, graphVars, startVars,
                now, riskParams, positions, positionOrder, devMetrics, policies,
                lastExecutionTime, processing, dispatch, tasks, executions,
                agentBusy, riskCall, approvedAt, policyReads>>

FreeLaunchCalls == {c \in LaunchCallIds : launches[c].pc = "unborn"}

\* the wallet lists handed to recordLaunch
WalletLists == << <<"w1">>, <<"w2">>, <<"w1", "w3">> >>

\* recordLaunch(deployer, mintAddress, connectedWallets) up to its first
\* await: the GET is issued
RecordLaunchCall(deployer, mintAddress, w) ==
  /\ FreeLaunchCalls # {}
  /\ LET c == CHOOSE c \in FreeLaunchCalls : \A y \in FreeLaunchCalls : c <= y
     IN launches' = [launches EXCEPT ![c] =
          [NoLaunchCall EXCEPT !.pc = "get", !.deployer = deployer,
                               !.mintAddress = mintAddress,
                               !.connectedWallets = WalletLists[w]]]
  /\ UNCHANGED <<profiles, scoreIndex, ScoreFrame>>

\* the GET is executed and its reply taken: the profile and its score are
\* built from what was read and the SET is issued; or the GET fails and
\* recordLaunch rejects
RecordLaunchGet(c, threw) ==
  /\ launches[c].pc = "get"
  /\ LET launch == launches[c]
         existing == profiles[launch.deployer]
     IN launches' = [launches EXCEPT ![c] =
          IF threw THEN [launch EXCEPT !.pc = "thrown"]
          ELSE [launch EXCEPT !.pc = "set", !.existing = existing,
                  !.full = Some(LaunchProfile(launch.deployer, existing,
                                              launch.connectedWallets))]]
  /\ UNCHANGED <<profiles, scoreIndex, ScoreFrame>>

\* the SET is executed, then the ZADD is issued; or the SET fails
RecordLaunchSet(c, threw) ==
  /\ launches[c].pc = "set"
  /\ profiles' = IF threw THEN profiles
                 ELSE [profiles EXCEPT ![launches[c].deployer] = launches[c].full]
  /\ launches' = [launches EXCEPT ![c].pc = IF threw THEN "thrown" ELSE "zadd"]
  /\ UNCHANGED <<scoreIndex, ScoreFrame>>

\* the ZADD is executed and recordLaunch returns the profile; or it fails
RecordLaunchZadd(c, threw) ==
  /\ launches[c].pc = "zadd"
  /\ scoreIndex' = IF threw THEN scoreIndex
                   ELSE [scoreIndex EXCEPT ![launches[c].deployer] =
                           Some(Get(launches[c].full).score)]
  /\ launches' = [launches EXCEPT ![c].pc = IF threw THEN "thrown" ELSE "returned"]
  /\ UNCHANGED <<profiles, ScoreFrame>>

NextScores ==
  \/ \E deployer \in Deployers, w \in 1..Len(WalletLists) :
       RecordLaunchCall(deployer, "m1", w)
  \/ \E c \in LaunchCallIds, threw \in BOOLEAN : RecordLaunchGet(c, threw)
  \/ \E c \in LaunchCallIds, threw \in BOOLEAN : RecordLaunchSet(c, threw)
  \/ \E c \in LaunchCallIds, threw \in BOOLEAN : RecordLaunchZadd(c, threw)

SpecScores == Init /\ [][NextScores]_vars

(***************************************************************************)
(* Properties.                                                             *)
(***************************************************************************)
Known == {p \in PositionIds : IsSome(positions[p])}

\* C1: every position whose status is Closed has tokenBalance = 0 and a
\* closedAt that is not null, whatever positions were created and whatever
\* full or partial executions were confirmed or failed
C1_ClosedMeansEmptyAndDated ==
  \A p \in Known :
    Get(positions[p]).status = "CLOSED" =>
      /\ Get(positions[p]).tokenBalance = 0
      /\ Get(positions[p]).closedAt # None

\* a confirmed execution has closed a position
C1_Witness ==
  \E p \in Known, x \in ExecIds :
    /\ Get(positions[p]).status = "CLOSED"
    /\ executions[x].updated
    /\ executions[x].request.positionId = p

\* C2: every position's tokenBalance is >= 0 in every reachable state, also
\* when two executions of the same position overlap and both are confirmed
C2_BalanceNeverNegative ==
  \A p \in Known : Get(positions[p]).tokenBalance >= 0

\* C3: once a position is Closed no later mutation makes it Open again
C3_ClosedStaysClosed ==
  [][\A p \in PositionIds :
       (IsSome(positions[p]) /\ Get(positions[p]).status = "CLOSED") =>
         (IsSome(positions'[p]) /\ Get(positions'[p]).status = "CLOSED")]_vars

\* C4: whenever the Policy Engine's subscriber or the Orchestrator evaluates
\* the policies for a DevWalletSell event and reads the dev metrics of its
\* (mint, devWallet), the State Engine has already recorded that event's sell
C4_MetricsUpdatedBeforePolicyReads ==
  \A r \in policyReads : r.recorded

\* C5: when a DevWalletSell event brings the windowed sum, itself included, to
\* the threshold of an active DevSellPercentage / ExitPosition policy while the
\* Orchestrator is idle, the processing of that event has issued, by the time
\* it ends, a FullExit at 100% for every position that was Open on the mint
C5_ExitIssuedForEveryOpenPosition ==
  [][\A e \in EventIds :
       (TaskActive(e) /\ tasks'[e].pc = "done" /\ tasks[e].qualified) =>
         \A p \in tasks[e].openAtEmit :
           \E i \in 1..Len(tasks[e].issued) :
             /\ tasks[e].issued[i].positionId = p
             /\ tasks[e].issued[i].action = "FULL_EXIT"
             /\ tasks[e].issued[i].sellPercentage = 100]_vars

OrchestratorExecutions ==
  {x \in ExecIds : executions[x].caller.kind = "orchestrator" /\ executions[x].pc # "done"}

\* C6: at most one processEvent invocation is between its policy evaluation
\* and its end, so an event that arrives meanwhile is dropped without an
\* evaluation or a request; the executions the Orchestrator has issued and
\* not taken back are the one its running invocation awaits
C6_SingleFlight ==
  /\ \A e, f \in EventIds : (TaskActive(e) /\ TaskActive(f)) => e = f
  /\ processing <=> \E e \in EventIds : TaskActive(e)
  /\ \A e \in EventIds :
       tasks[e].pc = "dropped" => tasks[e].triggered = <<>> /\ tasks[e].issued = <<>>
  /\ \A x \in OrchestratorExecutions :
       /\ tasks[executions[x].caller.event].pc = "exec"
       /\ tasks[executions[x].caller.event].exec = x
  /\ Cardinality(OrchestratorExecutions) <= 1

\* an event was dropped while the execution issued for another is in flight
C6_Witness ==
  \E e, f \in EventIds :
    /\ tasks[e].pc = "dropped"
    /\ tasks[f].pc = "exec"
    /\ InFlight(tasks[f].exec)

\* is the request of a recorded evaluate call valid but for the cooldown
OtherwiseValid(c) ==
  /\ c.request.maxSlippageBps <= riskParams.maxSlippageBps
  /\ c.request.priorityFeeLamports <= riskParams.maxPriorityFeeLamports
  /\ c.request.sellPercentage > 0 /\ c.request.sellPercentage <= 100
  /\ (IsSome(c.position) =>
        Get(c.position).entryAmountSol <= riskParams.maxPositionSizeSol)

WithinCooldown(c) ==
  /\ IsSome(c.approvedBefore)
  /\ c.time - Get(c.approvedBefore) < riskParams.executionCooldownMs

\* C7: an evaluate for p less than executionCooldownMs after an approval for p,
\* with no resetCooldown(p) in between, is rejected with EXECUTION_COOLDOWN,
\* and with that violation alone when the request is otherwise valid
C7_CooldownRejects ==
  IsSome(riskCall) =>
    (WithinCooldown(Get(riskCall)) =>
       /\ ~Get(riskCall).check.approved
       /\ \E i \in 1..Len(Get(riskCall).check.violations) :
            Get(riskCall).check.violations[i] = "EXECUTION_COOLDOWN"
       /\ (OtherwiseValid(Get(riskCall)) =>
             Get(riskCall).check.violations = <<"EXECUTION_COOLDOWN">>))

\* an otherwise valid request evaluated within the cooldown of an approval
C7_Witness ==
  /\ IsSome(riskCall)
  /\ WithinCooldown(Get(riskCall))
  /\ OtherwiseValid(Get(riskCall))
  /\ ~Get(riskCall).check.approved

\* C8: when execute returns Failed without having sold, the cooldown entry of
\* the request's position has been erased
C8_CooldownErasedAfterRejection ==
  [][\A x \in ExecIds :
       (/\ executions[x].pc # "returned"
        /\ executions'[x].pc = "returned"
        /\ executions'[x].result.status = "FAILED"
        /\ ~executions'[x].updated)
       => lastExecutionTime'[executions'[x].request.positionId] = None]_vars

\* does a recorded evaluate call violate the rule
Violated(rule, c) ==
  CASE rule = "MAX_SLIPPAGE" ->
         c.request.maxSlippageBps > riskParams.maxSlippageBps
    [] rule = "MAX_PRIORITY_FEE" ->
         c.request.priorityFeeLamports > riskParams.maxPriorityFeeLamports
    [] rule = "EXECUTION_COOLDOWN" ->
         /\ IsSome(c.lastBefore)
         /\ c.time - Get(c.lastBefore) < riskParams.executionCooldownMs
    [] rule = "MAX_POSITION_SIZE" ->
         /\ IsSome(c.position)
         /\ Get(c.position).entryAmountSol > riskParams.maxPositionSizeSol
    [] rule = "INVALID_SELL_PERCENTAGE" ->
         c.request.sellPercentage <= 0 \/ c.request.sellPercentage > 100

\* C9: the violations evaluate returns are exactly the violated rules, in the
\* order MAX_SLIPPAGE, MAX_PRIORITY_FEE, EXECUTION_COOLDOWN, MAX_POSITION_SIZE,
\* INVALID_SELL_PERCENTAGE; approved is true exactly when there is none; an
\* absent position violates nothing; a rejection leaves the position's
\* lastExecutionTime entry as it was
C9_EveryViolationCollected ==
  IsSome(riskCall) =>
    /\ Get(riskCall).check.violations =
         SelectSeq(RuleOrder, LAMBDA rule : Violated(rule, Get(riskCall)))
    /\ Get(riskCall).check.approved <=> (Get(riskCall).check.violations = <<>>)
    /\ (~Get(riskCall).check.approved =>
          Get(riskCall).lastAfter = Get(riskCall).lastBefore)

\* a call that violated the first two rules, the cooldown and the last rule
C9_Witness ==
  /\ IsSome(riskCall)
  /\ Get(riskCall).check.violations =
       <<"MAX_SLIPPAGE", "MAX_PRIORITY_FEE", "EXECUTION_COOLDOWN",
         "INVALID_SELL_PERCENTAGE">>

\* an execution whose simulation reported an error: no send, no update of the
\* position, a Failed result that starts with 'Simulation failed: ', and the
\* same result in the row handed to the database before execute returns
SimulationFailureHandled(x, exec) ==
  /\ exec.pc \in {"persist", "returned"}
  /\ exec.sends = 0
  /\ ~exec.updated
  /\ exec.result.status = "FAILED"
  /\ IsSome(exec.result.errorMessage)
  /\ Head(Get(exec.result.errorMessage)) = "Simulation failed: "
  /\ exec.pc = "returned" =>
       /\ exec.persisted = Some(ExecutionRow(x, exec))
       /\ Get(exec.persisted).status = "FAILED"
       /\ Head(Get(Get(exec.persisted).errorMessage)) = "Simulation failed: "

\* C10: when the simulation reports an error, execute persists and returns a
\* Failed result whose errorMessage starts with 'Simulation failed:', makes no
\* send attempt, and no step of that execution changes the position
C10_SimulationFailureFails ==
  [][\A x \in ExecIds :
       executions'[x].simError =>
         /\ SimulationFailureHandled(x, executions'[x])
         /\ executions'[x] # executions[x] => positions' = positions]_vars

\* an execution whose simulation reported an error has returned
C10_Witness ==
  \E x \in ExecIds :
    /\ executions[x].simError
    /\ executions[x].pc = "returned"
    /\ executions[x].result.status = "FAILED"

\* the delays of the retry warnings, as the backoff 1000 * 2^k gives them
BackoffDelays == <<1000, 2000, 4000>>

\* C11: sendWithRetries makes at most 3 attempts; the warning of failed attempt
\* k carries the delay 1000 * 2^k and the next attempt starts no sooner than
\* that after the failure; the result carries the signature of the first
\* confirmed attempt, nothing is sent after it, and the row handed to the
\* database is Confirmed with that signature
C11_SendWithRetries ==
  \A x \in ExecIds :
    /\ executions[x].sends <= 3
    /\ Len(executions[x].warnings) <= 3
    /\ \A i \in 1..Len(executions[x].warnings) :
         executions[x].warnings[i] = BackoffDelays[i]
    /\ (executions[x].pc = "send" /\ executions[x].attempt >= 1) =>
         now - executions[x].failedAt >= BackoffDelays[executions[x].attempt]
    /\ executions[x].result.status = "CONFIRMED" =>
         /\ executions[x].sends = Len(executions[x].warnings) + 1
         /\ executions[x].result.txSignature = Some(<<x, Len(executions[x].warnings)>>)
         /\ IsSome(executions[x].persisted) =>
              /\ Get(executions[x].persisted).status = "CONFIRMED"
              /\ Get(executions[x].persisted).txSignature = executions[x].result.txSignature

\* two attempts failed, the third was confirmed, and the execution is persisted
C11_Witness ==
  \E x \in ExecIds :
    /\ executions[x].pc \in {"updateDb", "returned"}
    /\ executions[x].warnings = <<1000, 2000>>
    /\ executions[x].sends = 3
    /\ Get(executions[x].persisted).status = "CONFIRMED"
    /\ Get(executions[x].persisted).txSignature = Some(<<x, 2>>)

\* what holds of an execution at every moment: one persist at most, a thrown
\* error caught into a Failed result with no update of the position, and at
\* its return a Confirmed or Failed result whose row was handed over once
ExecutionAccounted(x) ==
  /\ executions[x].persistCalls <= 1
  /\ executions[x].threw =>
       /\ executions[x].pc \in {"persist", "returned"}
       /\ executions[x].result.status = "FAILED"
       /\ ~executions[x].updated
  /\ executions[x].pc = "returned" =>
       /\ executions[x].result.status \in {"CONFIRMED", "FAILED"}
       /\ executions[x].persistCalls = 1
       /\ executions[x].persisted = Some(ExecutionRow(x, executions[x]))

\* C12: every call of execute returns, with a Confirmed or Failed result
\* handed to the database exactly once; an error thrown while quoting,
\* building, simulating or sending becomes a Failed result, and no step of
\* that execution changes the position
C12_ExecuteAlwaysReturns ==
  /\ [](\A x \in ExecIds : ExecutionAccounted(x))
  /\ [][\A x \in ExecIds :
          (executions'[x].threw /\ executions'[x] # executions[x]) =>
            positions' = positions]_vars
  /\ \A x \in ExecIds : InFlight(x) ~> (executions[x].pc \in {"returned", "done"})

\* an execution whose three sends all failed has returned
C12_Witness ==
  \E x \in ExecIds :
    /\ executions[x].pc = "returned"
    /\ executions[x].threw
    /\ executions[x].sends = 3
    /\ executions[x].result.status = "FAILED"

\* a queued threat-exit plan of urgency critical
IsCriticalThreat(item) ==
  item.plan.channel = "threat-exit" /\ item.plan.urgency = "critical"

\* the step is the arrival of a critical threat-exit
CriticalThreatArrives ==
  /\ plansSeen' = plansSeen + 1
  /\ \E i \in 1..Len(queue') :
       queue'[i].plan.id = plansSeen' /\ IsCriticalThreat(queue'[i])

\* the arriving critical threat-exit stands first, the plans queued before it
\* follow in the order they had
PlacedAtFront ==
  CriticalThreatArrives =>
    /\ queue'[1].plan.id = plansSeen'
    /\ Tail(queue') = queue

\* the step is a tick that takes a plan from the queue
Dequeues == Len(queue') < Len(queue)

\* C13 as stated: a critical threat-exit goes ahead of what is queued, the
\* queued plans keep their order behind it, and the next tick that dequeues
\* consumes it, so no critical threat-exit is left waiting by a dequeue
C13_NextDequeueTakesEveryCriticalExit ==
  [][/\ PlacedAtFront
     /\ Dequeues =>
          /\ queue' = Tail(queue)
          /\ \A i \in 1..Len(queue) : IsCriticalThreat(queue[i]) => i = 1]_vars

\* C13 amended: a critical threat-exit goes ahead of what is queued, the
\* queued plans keep their order behind it, and the next tick that dequeues
\* consumes it unless a later critical threat-exit has arrived meanwhile:
\* of the critical threat-exits waiting, a tick takes the latest arrival
C13_LatestCriticalExitConsumedFirst ==
  [][/\ PlacedAtFront
     /\ Dequeues =>
          /\ queue' = Tail(queue)
          /\ (\E i \in 1..Len(queue) : IsCriticalThreat(queue[i])) =>
               /\ IsCriticalThreat(Head(queue))
               /\ \A i \in 1..Len(queue) :
                    IsCriticalThreat(queue[i]) =>
                      queue[i].plan.id <= Head(queue).plan.id]_vars

\* a critical threat-exit that arrived behind a high and a low plan is running,
\* and those two wait in their order
C13_Witness ==
  /\ current # None
  /\ IsCriticalThreat([plan |-> Get(current).plan])
  /\ Len(queue) = 2
  /\ queue[1].plan.urgency = "high" /\ queue[1].plan.id < Get(current).plan.id
  /\ queue[2].plan.urgency = "low" /\ queue[2].plan.id < Get(current).plan.id

\* the execution-result messages sent for a plan
ResultsFor(planId) ==
  {i \in 1..Len(memoryInbox) : memoryInbox[i].planId = planId}

\* C14: for every enter, exit or partial_exit plan that was dequeued and whose
\* run has ended, exactly one execution-result message went to memory
C14_OneResultPerPlan ==
  \A planId \in handled : Cardinality(ResultsFor(planId)) = 1

\* the entries of the stream so far
Entries == 1..Len(stream)

\* the handler runs of node n for entry i
RunsOf(n, i) == {k \in 1..Len(dispatched[n]) : dispatched[n][k][1] = i}

\* entry i is in a reply node n is still going through
Waiting(n, i) ==
  \E r \in 1..Len(batch[n]) :
    \E k \in 1..Len(batch[n][r].messages) : batch[n][r].messages[k] = i

\* C15: a message whose author is the consuming node itself never reaches a
\* handler of that node, and once the node's loop has passed it, it is
\* acknowledged
C15_OwnSignalsSkippedAndAcked ==
  \A n \in Nodes : \A i \in Entries :
    stream[i].payload.nodeId = n =>
      /\ RunsOf(n, i) = {}
      /\ (<<n, i>> \in pending) => Waiting(n, i)

\* a node has read its own signal and acknowledged it
C15_Witness ==
  \E n \in Nodes : \E i \in Entries :
    /\ stream[i].payload.nodeId = n
    /\ <<n, i>> \in acked
    /\ ~Waiting(n, i)

\* C16: a message of another node is acknowledged only when every handler
\* has run on it and returned; when a handler threw it is not acknowledged
\* (it stays pending); and no handler runs twice on a message
C16_AckOnlyAfterAllHandlers ==
  \A n \in Nodes : \A i \in Entries :
    stream[i].payload.nodeId # n =>
      /\ (<<n, i>> \in acked) =>
           \A h \in Handlers :
             \E k \in RunsOf(n, i) : dispatched[n][k] = <<i, h, "ok">>
      /\ (\E k \in RunsOf(n, i) : dispatched[n][k][3] = "threw") =>
           /\ <<n, i>> \notin acked
           /\ <<n, i>> \in pending
      /\ \A k1, k2 \in RunsOf(n, i) :
           dispatched[n][k1][2] = dispatched[n][k2][2] => k1 = k2

\* one message of another node was handled and acknowledged, another one
\* failed in its second handler and was left pending
C16_Witness ==
  \E n \in Nodes : \E i, j \in Entries :
    /\ stream[i].payload.nodeId # n
    /\ <<n, i>> \in acked
    /\ <<n, j>> \in pending
    /\ ~Waiting(n, j)
    /\ \E k \in RunsOf(n, j) : dispatched[n][k] = <<j, 2, "threw">>

\* a handler of node n threw on entry i
DispatchFailed(n, i) ==
  \E k \in RunsOf(n, i) : dispatched[n][k][3] = "threw"

\* entry i went to the first handler of some node more than once
DispatchedAgain(i) ==
  \E n1, n2 \in Nodes :
    \E k1 \in RunsOf(n1, i), k2 \in RunsOf(n2, i) :
      /\ dispatched[n1][k1][2] = 1
      /\ dispatched[n2][k2][2] = 1
      /\ <<n1, k1>> # <<n2, k2>>

\* C17: a message whose dispatch failed is dispatched again on a later poll
C17_FailedDispatchRetried ==
  \A n \in Nodes : \A i \in 1..MaxSignals :
    (i \in Entries /\ DispatchFailed(n, i)) ~> DispatchedAgain(i)

\* C18: every signal a node publishes reaches the handlers of every other
\* node that consumes the channel
C18_EverySignalReachesOtherNodes ==
  \A n \in Nodes : \A i \in 1..MaxSignals :
    (i \in Entries /\ stream[i].payload.nodeId # n) ~> (RunsOf(n, i) # {})

\* C19: for every (mint, devWallet) the ring holds at most 100 sells, and
\* it holds the latest ones handled for the key, in the order they were
\* handled: all of them while there are at most 100, the last 100 afterwards
C19_RingHoldsLatestHundred ==
  \A key \in MetricsKeys :
    IsSome(devMetrics[key]) =>
      LET ring == Get(devMetrics[key]).recentSells
          count == Get(devMetrics[key]).totalSellCount
      IN /\ Len(ring) <= 100
         /\ Len(ring) = Min(count, 100)
         /\ \A i \in 1..Len(ring) : ring[i].slot = count - Len(ring) + i

\* a ring that is full and has evicted its first sell
C19_Witness ==
  \E key \in MetricsKeys :
    /\ IsSome(devMetrics[key])
    /\ Get(devMetrics[key]).totalSellCount > 100
    /\ Len(Get(devMetrics[key]).recentSells) = 100
    /\ Get(devMetrics[key]).recentSells[1].slot = 2

\* C20: for every (mint, devWallet) the timestamps of recentSells never
\* decrease from one entry to the next, whatever timestamps the events carry
C20_RingOrderedByTimestamp ==
  \A key \in MetricsKeys :
    IsSome(devMetrics[key]) =>
      LET ring == Get(devMetrics[key]).recentSells
      IN \A i \in 1..(Len(ring) - 1) : ring[i].timestamp <= ring[i + 1].timestamp

\* the entries of a ring that lie in the window that starts at cutoff
InWindow(ring, cutoff) == {i \in 1..Len(ring) : ring[i].timestamp >= cutoff}

RECURSIVE SumPercentages(_, _)
SumPercentages(ring, entries) ==
  IF entries = {} THEN 0
  ELSE LET i == CHOOSE j \in entries : TRUE
       IN ring[i].percentage + SumPercentages(ring, entries \ {i})

WindowCalled == call'.op = "getDevSellPercentageInWindow" /\ call' # call

\* C21: getDevSellPercentageInWindow(m, w, W) returns the sum of the
\* percentages of exactly those recentSells entries of (m, w) whose timestamp
\* is >= now - W, and 0 when no metrics exist for (m, w)
C21_WindowSum ==
  [][WindowCalled =>
       LET key == <<call'.args[1], call'.args[2]>>
           ring == Get(devMetrics[key]).recentSells
       IN IF devMetrics[key] = None
          THEN call'.result = 0
          ELSE call'.result =
                 SumPercentages(ring, InWindow(ring, now - call'.args[3]))]_vars

\* a call returned the sum of a window that holds some of the ring's entries
\* and leaves others out, one of them stamped exactly at the cutoff
C21_Witness ==
  /\ call.op = "getDevSellPercentageInWindow"
  /\ IsSome(devMetrics[<<call.args[1], call.args[2]>>])
  /\ LET ring == Get(devMetrics[<<call.args[1], call.args[2]>>]).recentSells
         cutoff == now - call.args[3]
     IN /\ \E i \in 1..Len(ring) : ring[i].timestamp = cutoff
        /\ \E i \in 1..Len(ring) : ring[i].timestamp < cutoff
        /\ call.result = SumPercentages(ring, InWindow(ring, cutoff))
        /\ call.result > 0

TotalSellCount(key) ==
  IF IsSome(devMetrics[key]) THEN Get(devMetrics[key]).totalSellCount ELSE 0
TotalSellPercentage(key) ==
  IF IsSome(devMetrics[key]) THEN Get(devMetrics[key]).totalSellPercentage ELSE 0

TotalsMatchHandled ==
  \A key \in MetricsKeys :
    /\ TotalSellCount(key) = sellLog[key].count
    /\ TotalSellPercentage(key) = sellLog[key].sum

TotalsGrow ==
  \A key \in MetricsKeys :
    /\ TotalSellCount(key)' >= TotalSellCount(key)
    /\ TotalSellPercentage(key)' >= TotalSellPercentage(key)

\* C22: for every (mint, devWallet), totalSellPercentage is the sum of
\* percentageOfHoldings over all DevWalletSell events ever handled for the
\* key, the sells evicted from the ring included, and totalSellCount is the
\* number of those events; neither ever decreases
C22_TotalsCoverEvictedSells == []TotalsMatchHandled /\ [][TotalsGrow]_vars

\* a key whose ring has evicted: the total is more than the ring holds
C22_Witness ==
  \E key \in MetricsKeys :
    /\ IsSome(devMetrics[key])
    /\ Get(devMetrics[key]).totalSellCount > RecentSellsLimit
    /\ Get(devMetrics[key]).totalSellPercentage = sellLog[key].sum
    /\ Get(devMetrics[key]).totalSellPercentage >
         SumPercentages(Get(devMetrics[key]).recentSells,
                        1..Len(Get(devMetrics[key]).recentSells))

BuyQuoted == call.op = "calculateBuyQuote" /\ IsSome(call.result)
SellQuoted == call.op = "calculateSellQuote" /\ IsSome(call.result)

\* C23: for every bonding-curve state and every baseIn >= 0 the quote
\* calculateBuyQuote returns has amountOut <= realTokenReserves, and for
\* every tokensIn >= 0 the quote calculateSellQuote returns has
\* amountOut <= realSolReserves
C23_QuoteCappedAtRealReserves ==
  /\ BuyQuoted => Get(call.result).amountOut <= call.args[1].realTokenReserves
  /\ SellQuoted => Get(call.result).amountOut <= call.args[1].realSolReserves

\* a buy whose curve output exceeds the real token reserves was quoted at
\* the reserves
C23_Witness ==
  /\ BuyQuoted
  /\ call.args[1].realTokenReserves > 0
  /\ Get(call.result).amountOut = call.args[1].realTokenReserves
  /\ call.args[2] * call.args[1].virtualTokenReserves >
       2 * call.args[1].realTokenReserves *
         (call.args[1].virtualSolReserves + call.args[2])

SlippageApplied == call.op = "applySlippage"

\* C24: for every amount x >= 0, applySlippage(x, 0, buy) =
\* applySlippage(x, 0, sell) = x, and for every integer bps >= 0,
\* applySlippage(x, bps, buy) >= x >= applySlippage(x, bps, sell)
C24_SlippageGuard ==
  SlippageApplied =>
    LET x == call.args[1]
        bps == call.args[2]
        isBuy == call.args[3]
    IN /\ bps = 0 => call.result = x
       /\ isBuy => call.result >= x
       /\ ~isBuy => call.result <= x

\* a sell was guarded below its amount, with more than 100% of slippage
\* down to zero
C24_Witness ==
  /\ SlippageApplied
  /\ ~call.args[3]
  /\ call.args[1] > 0
  /\ call.args[2] > 10000
  /\ call.result = 0

\* C25: the quote functions are total on non-complete curves: for every
\* state with virtualTokenReserves > 0 and virtualSolReserves > 0 and every
\* input >= 0 (inputs so small, or real reserves so low, that the capped
\* result is 0 included) calculateBuyQuote and calculateSellQuote return a
\* quote with priceImpactBps >= 0 instead of failing, and zero input yields
\* amountOut = 0 and priceImpactBps = 0
C25_QuotesTotal ==
  (/\ call.op \in {"calculateBuyQuote", "calculateSellQuote"}
   /\ call.args[1].virtualTokenReserves > 0
   /\ call.args[1].virtualSolReserves > 0)
  => /\ IsSome(call.result)
     /\ Get(call.result).priceImpactBps >= 0
     /\ call.args[2] = 0 =>
          /\ Get(call.result).amountOut = 0
          /\ Get(call.result).priceImpactBps = 0

\* the value a policy's trigger compares with its threshold for an event, or
\* None when the policy does not apply to the event
TriggerValue(policy, event) ==
  LET key == <<event.mintAddress, event.devWallet>>
  IN CASE policy.trigger = "DEV_SELL_PERCENTAGE" /\ event.type = "DEV_WALLET_SELL" ->
            IF IsSome(devMetrics[key])
            THEN LET ring == Get(devMetrics[key]).recentSells
                     windowMs == IF policy.windowSeconds = None THEN 600000
                                 ELSE Get(policy.windowSeconds) * 1000
                 IN Some(SumPercentages(ring, InWindow(ring, now - windowMs)))
            ELSE Some(0)
       [] policy.trigger = "DEV_SELL_COUNT" /\ event.type = "DEV_WALLET_SELL" ->
            Some(sellLog[key].count)
       [] policy.trigger = "SUPPLY_INCREASE" /\ event.type = "SUPPLY_CHANGE" ->
            Some(event.changePercentage)
       [] OTHER -> None

\* the places in the policy list of the policies an event triggers
TriggeredAt(event) ==
  {i \in 1..Len(policies) :
     /\ policies[i].isActive
     /\ policies[i].trigger # "PRICE_DROP_PERCENTAGE"
     /\ IsSome(TriggerValue(policies[i], event))
     /\ Get(TriggerValue(policies[i], event)) >= policies[i].threshold}

\* the place of the policy that owns a result
OwnerOf(result) == CHOOSE i \in 1..Len(policies) : policies[i].id = result.policyId

EvaluateCalled == call'.op = "evaluateEvent" /\ call' # call

EntryReported ==
  /\ Len(memoryInbox') = Len(memoryInbox) + 1
  /\ memoryInbox'[Len(memoryInbox')].action = "enter"
  /\ memoryInbox'[Len(memoryInbox')].success

\* C27: when the executor-agent completes an enter plan successfully (the buy
\* transaction is sent and success is reported), a position for that mint
\* with status Open exists in the State Engine afterwards
C27_EntryOpensPosition ==
  [][EntryReported =>
       \E p \in PositionIds :
         /\ IsSome(positions'[p])
         /\ Get(positions'[p]).mintAddress = memoryInbox'[Len(memoryInbox')].mintAddress
         /\ Get(positions'[p]).status = "OPEN"]_vars

\* Memory holds a successful enter outcome for the mint
EntriesHeld(mint) ==
  {i \in 1..Len(outcomes) :
     /\ outcomes[i].action = "enter"
     /\ outcomes[i].context.success
     /\ outcomes[i].mintAddress = mint}

\* ... the position of the mint is closed, and a later exit result for the
\* mint has been reported to Memory
ClosedAndExitReported(mint) ==
  \E i \in EntriesHeld(mint) :
    /\ \E p \in PositionIds :
         /\ IsSome(positions[p])
         /\ Get(positions[p]).mintAddress = mint
         /\ Get(positions[p]).status = "CLOSED"
    /\ \E j \in 1..Len(memoryInbox) :
         /\ memoryInbox[j].mintAddress = mint
         /\ memoryInbox[j].action \in {"exit", "partial_exit"}
         /\ memoryInbox[j].timestamp > outcomes[i].timestamp

OutcomesSent(mint) ==
  {k \in 1..Len(strategistInbox) : strategistInbox[k].mintAddress = mint}

\* C28: when Memory holds a successful enter outcome for a mint, the
\* position has become Closed in the State Engine and a later exit result for
\* the mint has been reported to Memory, then Memory eventually emits an
\* outcome message to the strategist for that entry, and never more than one
C28_OutcomeEmittedOnce ==
  /\ \A mint \in Mints :
       ClosedAndExitReported(mint) ~> (OutcomesSent(mint) # {})
  /\ [](\A mint \in Mints :
          Cardinality(OutcomesSent(mint)) <= Cardinality(EntriesHeld(mint)))

\* C29: Agent.stop drops the agent's mailbox subscriptions: after stop() has
\* returned, a message sent to (role, channel) or broadcast on channel no
\* longer invokes any handler of that agent (it is not added to the stopped
\* executor-agent's queue), and no further tick runs
C29_StoppedAgentHearsNothing ==
  [][~running =>
       /\ queue' = queue
       /\ plansSeen' = plansSeen
       /\ current = None => current' = None]_vars

\* the positions that are Open on a mint
OpenOn(mint) ==
  {p \in PositionIds :
     /\ IsSome(positions[p])
     /\ Get(positions[p]).mintAddress = mint
     /\ Get(positions[p]).status = "OPEN"}

\* the request the mapping owes for a triggered result and a position
RequestOwed(result, r) ==
  /\ r.policyId = result.policyId
  /\ result.action = "EXIT_POSITION" => r.action = "FULL_EXIT" /\ r.sellPercentage = 100
  /\ result.action = "PARTIAL_SELL" =>
       /\ r.action = "PARTIAL_SELL"
       /\ r.sellPercentage =
            IF result.actionParams # None /\ Get(result.actionParams).sellPercentage # None
            THEN Get(Get(result.actionParams).sellPercentage) ELSE 50
  /\ result.action = "HALT_STRATEGY" => r.action = "HALT" /\ r.sellPercentage = 0
  /\ result.action # "ALERT_ONLY"
  /\ r.maxSlippageBps =
       IF result.actionParams # None /\ Get(result.actionParams).maxSlippageBps # None
       THEN Get(Get(result.actionParams).maxSlippageBps) ELSE riskParams.maxSlippageBps
  /\ r.priorityFeeLamports =
       IF result.actionParams # None /\ Get(result.actionParams).priorityFeeLamports # None
       THEN Get(Get(result.actionParams).priorityFeeLamports)
       ELSE riskParams.maxPriorityFeeLamports

\* processEvent issues a request in this step
Issues(e) == Len(tasks'[e].issued) = Len(tasks[e].issued) + 1

\* processEvent ends in this step
Ends(e) == TaskActive(e) /\ tasks'[e].pc = "done"

IssuedFor(e, result, p) ==
  {i \in 1..Len(tasks[e].issued) :
     /\ tasks[e].issued[i].policyId = result.policyId
     /\ tasks[e].issued[i].positionId = p}

\* C30: for every triggered policy result and every Open position on the
\* event's mint, the Orchestrator issues one ExecutionRequest whose action and
\* sellPercentage are: ExitPosition -> FullExit at 100, PartialSell ->
\* PartialSell at actionParams.sellPercentage or 50 when absent, HaltStrategy
\* -> Halt at 0; AlertOnly issues no request; maxSlippageBps and priorityFee
\* default to the risk-parameter caps when the policy does not override them
C30_RequestPerResultAndPosition ==
  [][\A e \in EventIds :
       /\ Issues(e) =>
            LET task == tasks'[e]
                r == task.issued[Len(task.issued)]
            IN /\ RequestOwed(task.triggered[task.ri], r)
               /\ r.positionId = Get(task.plist)[task.pi]
               /\ Get(positions[r.positionId]).mintAddress = task.event.mintAddress
               /\ (tasks[e].plist # task.plist) =>
                    {Get(task.plist)[i] : i \in 1..Len(Get(task.plist))} =
                      OpenOn(task.event.mintAddress)
       /\ Ends(e) =>
            \A k \in 1..Len(tasks[e].triggered) :
              LET result == tasks[e].triggered[k]
              IN /\ result.action = "ALERT_ONLY" =>
                      \A p \in PositionIds : IssuedFor(e, result, p) = {}
                 /\ result.action # "ALERT_ONLY" =>
                      /\ \A p \in tasks[e].openAtEmit \cap OpenOn(tasks[e].event.mintAddress) :
                           Cardinality(IssuedFor(e, result, p)) = 1
                      /\ \A p \in PositionIds :
                           Cardinality(IssuedFor(e, result, p)) <= 1]_vars

\* a processEvent run whose other triggered policy only alerts has issued, for
\* each of the two positions on the mint, a Halt at 0 with the policy's
\* priority fee and the default slippage, and the second execution has returned
C30_Witness ==
  \E e \in EventIds :
    /\ tasks[e].pc = "exec"
    /\ executions[tasks[e].exec].pc = "returned"
    /\ \E k \in 1..Len(tasks[e].triggered) : tasks[e].triggered[k].action = "ALERT_ONLY"
    /\ \E i, j \in 1..Len(tasks[e].issued) :
         /\ tasks[e].issued[i].positionId # tasks[e].issued[j].positionId
         /\ tasks[e].issued[i].policyId = tasks[e].issued[j].policyId
         /\ tasks[e].issued[i].action = "HALT"
         /\ tasks[e].issued[i].sellPercentage = 0
         /\ tasks[e].issued[i].priorityFeeLamports = 5000
         /\ tasks[e].issued[i].maxSlippageBps = riskParams.maxSlippageBps

\* a tick takes the head of the queue in this step
TakesHead == running' = running /\ queue # <<>> /\ queue' = Tail(queue)

\* the plan that was executing ends in this step
PlanFinishes == current # None /\ current' = None

\* C31: the executor-agent dequeues at most one plan per tick and never has
\* two plans executing at once: a tick that fires while a dequeued plan is
\* still executing dequeues nothing, and the processing flag is released when
\* that plan finishes, whether it succeeded or threw
C31_OnePlanAtATime ==
  /\ [](agentBusy <=> current # None)
  /\ [][/\ TakesHead => current = None /\ ~agentBusy
        /\ (running' = running /\ Len(queue') < Len(queue)) => TakesHead
        /\ PlanFinishes => ~agentBusy'
        /\ (current # None /\ current' # None) => Get(current').plan = Get(current).plan]_vars

\* a plan is executing while another waits in the queue of the running
\* agent, after an earlier plan has ended
C31_Witness ==
  /\ running
  /\ current # None
  /\ queue # <<>>
  /\ handled # {}

CriticalExit == [urgency |-> "critical", action |-> "full_exit", sellPercentage |-> 100]

\* a check that gathered a critical threat sent the one critical exit and
\* did not ask the reasoning service
CriticalChecksExit ==
  \A i \in 1..Len(checks) :
    (checks[i].ended /\ HasSeverity(checks[i].threats, "critical")) =>
      /\ checks[i].sent = <<CriticalExit>>
      /\ ~checks[i].llm

\* two checks of one position are at least ten seconds apart
ChecksTenSecondsApart ==
  \A i, j \in 1..Len(checks) :
    (i < j /\ checks[i].positionId = checks[j].positionId) =>
      checks[j].at - checks[i].at >= 10000

\* C32: when the sentinel's check of a position gathers at least one critical
\* threat (dev sells above 30% in the last 10 minutes), it sends exactly one
\* threat-exit with urgency critical, action full_exit and sellPercentage 100
\* to the executor for that position and does not call the reasoning service;
\* and each Open position is checked at most once per 10 seconds
C32_CriticalThreatExitsAtOnce ==
  /\ CriticalChecksExit
  /\ ChecksTenSecondsApart

\* the wallets one hop from a set of wallets, an added edge followed in
\* either direction
Hop(ws) ==
  {w \in Wallets : \E v \in ws : IsSome(graphEdges[<<v, w>>]) \/ IsSome(graphEdges[<<w, v>>])}

RECURSIVE WithinHops(_, _)
WithinHops(ws, n) == IF n <= 0 THEN ws ELSE WithinHops(ws \cup Hop(ws), n - 1)

ClusterCalled == call.op = "getCluster"

\* C33: after any sequence of addEdge calls, getCluster(root, maxDepth)
\* returns exactly the wallets other than root that are reachable from root
\* in at most maxDepth hops when every edge is followed in both directions;
\* the result never contains root and contains no duplicates
C33_ClusterIsReachableSet ==
  ClusterCalled =>
    LET root == call.args[1]
        maxDepth == call.args[2]
    IN /\ Elements(call.result) = WithinHops({root}, maxDepth) \ {root}
       /\ root \notin Elements(call.result)
       /\ Cardinality(Elements(call.result)) = Len(call.result)

\* a cluster of two hops that holds a wallet reached against the direction
\* of its edge and leaves out a wallet three hops away
C33_Witness ==
  /\ ClusterCalled
  /\ call.args = <<"w1", 2>>
  /\ IsSome(graphEdges[<<"w2", "w1">>])
  /\ IsSome(graphEdges[<<"w2", "w3">>])
  /\ IsSome(graphEdges[<<"w4", "w3">>])
  /\ Elements(call.result) = {"w2", "w3"}

\* the step is a send attempt of execution x
SendAttempt(x) == executions'[x].sends = executions[x].sends + 1

\* the step is the confirmation of a send of execution x
SendConfirmed(x) ==
  /\ SendAttempt(x)
  /\ executions'[x].result.status = "CONFIRMED"
  /\ IsSome(executions'[x].result.txSignature)

\* what execution x had passed when it made a send attempt
Cleared(exec) ==
  /\ exec.approved
  /\ exec.found
  /\ exec.simulated
  /\ ~exec.simError

\* C34: no sell transaction is sent for an execution unless the Risk Engine
\* approved its request, its position was found and its simulation succeeded;
\* and a position that exists is modified only in a step that confirms the
\* send of an execution of that position
C34_SendOnlyWhenCleared ==
  /\ [](\A x \in ExecIds : executions[x].sends > 0 => Cleared(executions[x]))
  /\ [][/\ \A x \in ExecIds : SendAttempt(x) => Cleared(executions[x])
        /\ \A p \in PositionIds :
             (IsSome(positions[p]) /\ positions'[p] # positions[p]) =>
               \E x \in ExecIds : /\ executions[x].request.positionId = p
                                  /\ SendConfirmed(x)]_vars

\* one execution was rejected by the Risk Engine and sent nothing, another was
\* confirmed after a failed attempt and has updated its position
C34_Witness ==
  \E x, y \in ExecIds :
    /\ executions[x].pc = "returned"
    /\ ~executions[x].approved
    /\ executions[x].sends = 0
    /\ executions[y].sends = 2
    /\ executions[y].updated
    /\ executions[y].result.status = "CONFIRMED"

\* the executor-agent is running after a stop and a start: its onStart has run
\* again
Restarted == running /\ busListeners > 1

\* the step is the arrival of one message on a channel of the executor-agent
MessageArrives == plansSeen' = plansSeen + 1

\* the entries of q that hold the plan of message id
EntriesOf(q, id) == {i \in 1..Len(q) : q[i].plan.id = id}

\* C35: after the executor-agent has been paused and resumed, each message
\* sent to one of its channels is handled exactly once: one execution-plan
\* message adds exactly one entry to its queue
C35_HandledOnceAfterResume ==
  [][(Restarted /\ MessageArrives) =>
       /\ Len(queue') = Len(queue) + 1
       /\ Cardinality(EntriesOf(queue', plansSeen')) = 1]_vars

\* no call of start() is in flight on the agent
StartFinished(agent) == agent.pc = "idle"

\* the step is a call of start() on the agent of the role
StartIsCalled(role) == agents'[role].starts = agents[role].starts + 1

\* C36: whenever an agent reports running = true after start() has finished,
\* returned or thrown, its tick timer is armed; and a start() called on an
\* agent that has no timer and no start in flight goes on to onStart, after
\* which the timer is armed
C36_RunningMeansArmed ==
  /\ [](\A role \in Roles :
          (agents[role].running /\ StartFinished(agents[role])) => agents[role].timer)
  /\ [][\A role \in Roles :
          (StartIsCalled(role) /\ StartFinished(agents[role]) /\ ~agents[role].timer) =>
            agents'[role].pc = "onStart"]_vars

\* execution x carries the request the Orchestrator issues for a triggered
\* HaltStrategy policy
IsHalt(exec) ==
  /\ exec.pc \notin {"unborn", "done"}
  /\ exec.request.action = "HALT"
  /\ exec.request.sellPercentage = 0

\* the row of a Failed execution without a signature was handed to the database
PersistedFailed(exec) ==
  /\ exec.result.status = "FAILED"
  /\ IsSome(exec.persisted)
  /\ Get(exec.persisted).status = "FAILED"
  /\ Get(exec.persisted).txSignature = None

\* C37: an execution of a Halt request with sellPercentage 0 never sends a
\* transaction, none of its steps changes a position or the Risk Engine's
\* lastExecution entry of its position, and it always ends as a persisted
\* Failed execution
C37_HaltSendsNothing ==
  /\ [](\A x \in ExecIds : IsHalt(executions[x]) =>
          /\ executions[x].sends = 0
          /\ ~executions[x].approved
          /\ ~executions[x].updated
          /\ executions[x].result.status = "FAILED"
          /\ executions[x].pc = "returned" => PersistedFailed(executions[x]))
  /\ [][\A x \in ExecIds :
          (IsHalt(executions'[x]) /\ executions'[x] # executions[x]) =>
            /\ positions' = positions
            /\ lastExecutionTime'[executions'[x].request.positionId] =
                 lastExecutionTime[executions'[x].request.positionId]]_vars
  /\ \A x \in ExecIds :
       IsHalt(executions[x]) ~>
         (executions[x].pc = "returned" /\ PersistedFailed(executions[x]))

\* a Halt execution has returned; its position is Open with its balance and
\* has no lastExecution entry
C37_Witness ==
  \E x \in ExecIds :
    LET p == executions[x].request.positionId
    IN /\ IsHalt(executions[x])
       /\ executions[x].pc = "returned"
       /\ PersistedFailed(executions[x])
       /\ IsSome(positions[p])
       /\ Get(positions[p]).status = "OPEN"
       /\ Get(positions[p]).tokenBalance > 0
       /\ lastExecutionTime[p] = None

\* the step is the arrival of event e at the Orchestrator's subscriber
Arrives(e) == tasks[e].pc = "unborn" /\ tasks'[e].pc # "unborn"

\* C38: the Orchestrator's gate is always released: it is held exactly while
\* an event is being processed, the processing of every event finishes,
\* whether it completed, found no triggered policy or failed with an error,
\* and an event that arrives when no processing is under way is processed
\* and not dropped
C38_GateAlwaysReleased ==
  /\ [](processing <=> \E e \in EventIds : TaskActive(e))
  /\ [][\A e \in EventIds :
          (Arrives(e) /\ \A f \in EventIds : ~TaskActive(f)) =>
            /\ tasks'[e].pc = "evaluated"
            /\ processing']_vars
  /\ \A e \in EventIds :
       TaskActive(e) ~> (~processing /\ tasks[e].pc \in {"done", "failed"})

\* an event is being processed after the processing of an earlier one failed
\* with an error
C38_Witness ==
  \E e, f \in EventIds :
    /\ tasks[e].pc = "failed"
    /\ tasks[f].pc = "exec"
    /\ processing

\* the queue is ordered by urgency: critical, high, medium, low
OrderedByUrgency(q) ==
  \A i, j \in 1..Len(q) :
    i < j => urgencyOrder(q[i].plan.urgency) <= urgencyOrder(q[j].plan.urgency)

\* the head is the earliest arrival among the queued plans of its urgency
HeadIsEarliestOfItsUrgency(q) ==
  \A i \in 1..Len(q) :
    q[i].plan.urgency = Head(q).plan.urgency => Head(q).plan.id <= q[i].plan.id

\* C39 as stated: at every dequeue the queue is ordered by urgency and the
\* plan taken is the earliest arrival of its urgency, two critical
\* threat-exits that arrive one after the other included
C39_FifoWithinUrgency ==
  [][Dequeues =>
       /\ queue' = Tail(queue)
       /\ OrderedByUrgency(queue)
       /\ HeadIsEarliestOfItsUrgency(queue)]_vars

\* of two queued plans of the same urgency the one in front arrived first,
\* unless the one in front is a critical threat-exit: that one stands ahead of
\* every plan that is not a critical threat-exit, and ahead of the critical
\* threat-exits that arrived before it
FifoButCriticalExits(q) ==
  \A i, j \in 1..Len(q) :
    (i < j /\ q[i].plan.urgency = q[j].plan.urgency) =>
      IF IsCriticalThreat(q[i])
      THEN IsCriticalThreat(q[j]) => q[i].plan.id > q[j].plan.id
      ELSE ~IsCriticalThreat(q[j]) /\ q[i].plan.id < q[j].plan.id

\* C39 amended: at every dequeue the queue is ordered by urgency, the head is
\* taken, and plans of the same urgency stand in arrival order except the
\* critical threat-exits, which stand first, the latest arrival ahead
C39_FifoButCriticalExits ==
  [][Dequeues =>
       /\ queue' = Tail(queue)
       /\ OrderedByUrgency(queue)
       /\ FifoButCriticalExits(queue)]_vars

\* the latest of two critical threat-exits is running, the earlier one waits
\* ahead of a critical plan that arrived before both
C39_Witness ==
  /\ current # None
  /\ IsCriticalThreat([plan |-> Get(current).plan])
  /\ Len(queue) = 2
  /\ IsCriticalThreat(queue[1])
  /\ queue[1].plan.id < Get(current).plan.id
  /\ queue[2].plan.channel = "execution-plan"
  /\ queue[2].plan.urgency = "critical"
  /\ queue[2].plan.id < queue[1].plan.id

\* the calls of recordLaunch made for the deployer
LaunchCallsFor(deployer) ==
  {c \in LaunchCallIds : launches[c].pc # "unborn" /\ launches[c].deployer = deployer}

\* C40: after n recordLaunch calls for the same deployer have returned, calls
\* whose read and write of the profile overlap included, the stored profile
\* has totalLaunches = n and its connectedWallets is the duplicate-free
\* union of all wallets passed in
C40_NoLaunchLost ==
  \A deployer \in Deployers :
    LET calls == LaunchCallsFor(deployer)
    IN (calls # {} /\ \A c \in calls : launches[c].pc = "returned") =>
         /\ IsSome(profiles[deployer])
         /\ Get(profiles[deployer]).totalLaunches = Cardinality(calls)
         /\ Elements(Get(profiles[deployer]).connectedWallets) =
              UNION {Elements(launches[c].connectedWallets) : c \in calls}
         /\ Len(Get(profiles[deployer]).connectedWallets) =
              Cardinality(Elements(Get(profiles[deployer]).connectedWallets))

====
